---- MODULE Spec2Model ----
(***************************************************************************)
(* Feature-derivation engine of the fundamentals pipeline: the QoQ/Rate    *)
(* stage of src/make_QoQ.py (get_unique_columns, quarterly_changes,        *)
(* get_rate_columns, safe_slope, get_rate_data and the __main__ script).   *)
(*                                                                         *)
(* Numbers.  A float is a pair <<n, d>>: for d > 0 the rational n/d in     *)
(* lowest terms, <<0,0>> is NaN, <<1,0>> is +Inf and <<-1,0>> is -Inf.     *)
(* Arithmetic follows IEEE-754 on the non-finite values and is exact on    *)
(* the finite ones (the model's inputs are small, so no rounding occurs).  *)
(*                                                                         *)
(* Strings.  A column name is a sequence of one-character strings, so      *)
(* that concatenation, slicing, split and substring search are computed    *)
(* as Python computes them.                                                *)
(***************************************************************************)
EXTENDS Integers, Sequences, FiniteSets, TLC

VARIABLES
    pc,              \* position of the script or call the specification runs
    dataset,         \* train_dataset: column name -> column (one float per row)
    unique_columns,  \* list returned by get_unique_columns
    raised,          \* 0, or the index in unique_columns at which a KeyError escaped
    QoQ_columns,     \* first list returned by get_rate_columns
    QoQ_quarters,    \* second list returned by get_rate_columns
    vals,            \* argument of a direct safe_slope call
    ret,             \* what that safe_slope call returned: [value, line, divisor]
    df,                  \* X_train_filled.py: the table read from input_file
    df_train,            \* X_train_X_test_filled.py: the table read from train_input
    df_test,             \* X_train_X_test_filled.py: the table read from test_input
    df_original_train,   \* X_train_X_test_filled.py: the self-filled copy of df_train
    df_new_test,         \* X_train_X_test_filled.py: the reference-filled copy of df_test
    medians,             \* X_train_X_test_filled.py: target column -> the medians Series of its iteration
    X_train_csv,         \* the file X_train.csv both imputation scripts read the training table from
    input_df,        \* extract_features.py: the table read from input_file
    pickles,         \* extract_features.py: the files under pickles/, file name -> pickled object
    fitted,          \* extract_features.py: the objects pca, pca_KPI, kmeans when the function returns
    augmented_df,    \* extract_features.py: the table written to output_file
    runs,            \* extract_features.py: how many times the script has been run
    input_columns,       \* helpers.get_quarters: input_df.columns
    returned_quarters,   \* helpers.get_quarters: the list returned, or the exception raised
    KPI_input,       \* make_KPIs: input_df
    KPI_df,          \* make_KPIs: the frame returned, or the exception raised
    strata_input,    \* create_strata: the dataset passed in
    strata_returned, \* create_strata: the pair (dataset, strat) returned
    orig_tickers,    \* fetch_metrcis: the tickers submitted
    futures,         \* fetch_metrcis: the state of the future of each submitted ticker
    result_rows,     \* fetch_metrcis: the list rows the results are appended to
    metrics,         \* fetch_metrcis: the frame returned
    clean_input,     \* clean: input_df
    cleaned_df       \* clean: the frame returned

qoq_vars == <<dataset, unique_columns, raised, QoQ_columns, QoQ_quarters, vals, ret>>

fill_vars == <<df, df_train, df_test, df_original_train, df_new_test, medians, X_train_csv>>

pca_vars == <<input_df, pickles, fitted, augmented_df, runs>>

quarters_vars == <<input_columns, returned_quarters>>

kpi_vars == <<KPI_input, KPI_df>>

strata_vars == <<strata_input, strata_returned>>

fetch_vars == <<orig_tickers, futures, result_rows, metrics>>

clean_vars == <<clean_input, cleaned_df>>

stage_vars == <<kpi_vars, strata_vars, fetch_vars, clean_vars>>

vars == <<pc, qoq_vars, fill_vars, pca_vars, quarters_vars, stage_vars>>

\* the variables of a script that the specification does not run
NoTable == <<>>

FillIdle ==
    /\ df = NoTable
    /\ df_train = NoTable
    /\ df_test = NoTable
    /\ df_original_train = NoTable
    /\ df_new_test = NoTable
    /\ medians = <<>>
    /\ X_train_csv = NoTable

PCAIdle ==
    /\ input_df = NoTable
    /\ pickles = <<>>
    /\ fitted = <<>>
    /\ augmented_df = NoTable
    /\ runs = 0

QuartersIdle ==
    /\ input_columns = <<>>
    /\ returned_quarters = <<>>

KPIIdle == KPI_input = NoTable /\ KPI_df = NoTable

StrataIdle == strata_input = NoTable /\ strata_returned = NoTable

FetchIdle == orig_tickers = <<>> /\ futures = <<>> /\ result_rows = <<>> /\ metrics = NoTable

CleanIdle == clean_input = NoTable /\ cleaned_df = NoTable

StagesIdle == KPIIdle /\ StrataIdle /\ FetchIdle /\ CleanIdle

QoQIdle ==
    /\ dataset = NoTable
    /\ unique_columns = <<>>
    /\ raised = 0
    /\ QoQ_columns = <<>>
    /\ QoQ_quarters = <<>>
    /\ vals = <<>>

----------------------------------------------------------------------------
(* Bounds of the model *)

\* number of pool columns a Revenue quarter column may be drawn from
PoolSize == 4
\* longest sequence handed to safe_slope directly
MaxLen == 4
\* largest integer value in a sequence handed to safe_slope directly
MaxY == 7

----------------------------------------------------------------------------
(* Floats *)

NaN == <<0, 0>>
PInf == <<1, 0>>
NInf == <<-1, 0>>
Zero == <<0, 1>>

Abs(i) == IF i < 0 THEN -i ELSE i

Sgn(i) == IF i < 0 THEN -1 ELSE IF i > 0 THEN 1 ELSE 0

RECURSIVE GCD(_, _)
GCD(a, b) == IF b = 0 THEN a ELSE GCD(b, a % b)

\* the float n/d, d # 0, in lowest terms
Rat(n, d) ==
    LET g == GCD(Abs(n), Abs(d))
        s == IF d < 0 THEN -1 ELSE 1
    IN  <<(s * n) \div g, (s * d) \div g>>

Int2F(i) == <<i, 1>>

isnan(x) == x = NaN

\* np.isfinite
isfinite(x) == x[2] # 0

FNeg(x) == <<-x[1], x[2]>>

\* x + y
FAdd(x, y) ==
    IF isnan(x) \/ isnan(y) THEN NaN
    ELSE IF ~isfinite(x) THEN (IF ~isfinite(y) /\ y # x THEN NaN ELSE x)
    ELSE IF ~isfinite(y) THEN y
    ELSE LET g == GCD(x[2], y[2])
         IN  Rat(x[1] * (y[2] \div g) + y[1] * (x[2] \div g), x[2] * (y[2] \div g))

\* x - y
FSub(x, y) == FAdd(x, FNeg(y))

\* x * y
FMul(x, y) ==
    IF isnan(x) \/ isnan(y) THEN NaN
    ELSE IF ~isfinite(x) \/ ~isfinite(y)
         THEN (IF x[1] = 0 \/ y[1] = 0 THEN NaN ELSE <<Sgn(x[1]) * Sgn(y[1]), 0>>)
    ELSE LET a == Rat(x[1], y[2])
             b == Rat(y[1], x[2])
         IN  <<a[1] * b[1], a[2] * b[2]>>

\* x / y  (float64 division: x/0 is +-Inf, 0/0 is NaN)
FDiv(x, y) ==
    IF isnan(x) \/ isnan(y) THEN NaN
    ELSE IF ~isfinite(x) THEN (IF ~isfinite(y) THEN NaN
                               ELSE <<x[1] * (IF y[1] < 0 THEN -1 ELSE 1), 0>>)
    ELSE IF ~isfinite(y) THEN Zero
    ELSE IF y[1] = 0 THEN (IF x[1] = 0 THEN NaN ELSE <<Sgn(x[1]), 0>>)
    ELSE FMul(x, <<Sgn(y[1]) * y[2], Abs(y[1])>>)

\* a/b < c/d for b, d > 0, by the integer parts and then the remainders
\* (no product is formed, so none can exceed the integer range)
RECURSIVE RatLt(_, _, _, _)
RatLt(a, b, c, d) ==
    IF a \div b # c \div d THEN a \div b < c \div d
    ELSE IF c % d = 0 THEN FALSE
    ELSE IF a % b = 0 THEN TRUE
    ELSE RatLt(d, c % d, b, a % b)

\* x < y  (FALSE when either is NaN)
FLt(x, y) ==
    IF isnan(x) \/ isnan(y) THEN FALSE
    ELSE IF x = y THEN FALSE
    ELSE IF ~isfinite(x) THEN x = NInf
    ELSE IF ~isfinite(y) THEN y = PInf
    ELSE RatLt(x[1], x[2], y[1], y[2])

\* x == y  (FALSE when either is NaN)
FEq(x, y) == ~isnan(x) /\ ~isnan(y) /\ x = y

FAbs(x) == <<Abs(x[1]), x[2]>>

----------------------------------------------------------------------------
(* Strings *)

space == " "
underscore == "_"

\* s[-k:]  (the whole string when it is shorter than k)
LastChars(s, k) == IF Len(s) <= k THEN s ELSE SubSeq(s, Len(s) - k + 1, Len(s))

\* s[:-k]  (the empty string when it is not longer than k)
DropLastChars(s, k) == IF Len(s) <= k THEN <<>> ELSE SubSeq(s, 1, Len(s) - k)

\* sub in s
Contains(sub, s) ==
    \E i \in 1..(Len(s) - Len(sub) + 1) : SubSeq(s, i, i + Len(sub) - 1) = sub

\* s.replace(a, b) for characters a, b
ReplaceChar(s, a, b) == [i \in 1..Len(s) |-> IF s[i] = a THEN b ELSE s[i]]

\* s.split(sep): the list of the pieces between the separators
RECURSIVE Split(_, _)
Split(s, sep) ==
    IF \A i \in 1..Len(s) : s[i] # sep THEN <<s>>
    ELSE LET k == CHOOSE i \in 1..Len(s) :
                      s[i] = sep /\ \A j \in 1..(i - 1) : s[j] # sep
         IN  <<SubSeq(s, 1, k - 1)>> \o Split(SubSeq(s, k + 1, Len(s)), sep)

\* ord() of the characters that occur in the compared names
Ord(c) ==
    CASE c = "0" -> 48 [] c = "1" -> 49 [] c = "2" -> 50 [] c = "3" -> 51
      [] c = "4" -> 52 [] c = "5" -> 53 [] c = "6" -> 54 [] c = "7" -> 55
      [] c = "8" -> 56 [] c = "9" -> 57 [] c = "Q" -> 81 [] c = "_" -> 95
      [] OTHER -> 97

\* s < t for str
RECURSIVE StrLt(_, _)
StrLt(s, t) ==
    IF t = <<>> THEN FALSE
    ELSE IF s = <<>> THEN TRUE
    ELSE IF Ord(Head(s)) # Ord(Head(t)) THEN Ord(Head(s)) < Ord(Head(t))
    ELSE StrLt(Tail(s), Tail(t))

\* list.sort() / sorted() of a set of strings
RECURSIVE SortedList(_)
SortedList(S) ==
    IF S = {} THEN <<>>
    ELSE LET m == CHOOSE x \in S : \A y \in S \ {x} : StrLt(x, y)
         IN  <<m>> \o SortedList(S \ {m})

\* the lists list(S) may be: the elements of S, each once, in any order
ListsOf(S) ==
    {l \in [1..Cardinality(S) -> S] : \A i, j \in DOMAIN l : i # j => l[i] # l[j]}

----------------------------------------------------------------------------
(* Column names of the table read by the QoQ/Rate stage *)

Ticker == <<"T", "i", "c", "k", "e", "r">>
Sector == <<"S", "e", "c", "t", "o", "r">>
MarketCap == <<"M", "a", "r", "k", "e", "t", " ", "C", "a", "p">>
Price == <<"P", "r", "i", "c", "e">>
Revenue == <<"R", "e", "v", "e", "n", "u", "e">>
KPI == <<"K", "P", "I">>
KPI_CashFlow == <<"K", "P", "I", "_", "C", "a", "s", "h", "F", "l", "o", "w">>
QoQ == <<"Q", "o", "Q">>
QoQ_infix == <<"_", "Q", "o", "Q", "_">>
Rate_suffix == <<"_", "R", "a", "t", "e">>

\* quarters of the __main__ script
quarters ==
    << <<"_", "2", "0", "2", "4", "Q", "2">>,
       <<"_", "2", "0", "2", "4", "Q", "3">>,
       <<"_", "2", "0", "2", "4", "Q", "4">>,
       <<"_", "2", "0", "2", "5", "Q", "1">> >>

\* identifiers get_unique_columns removes
drop ==
    { <<"N", "a", "m", "e">>, Ticker, <<"E", "x", "c", "h", "a", "n", "g", "e">>, Sector,
      <<"M", "a", "r", "k", "e", "t">>, <<"L", "o", "c", "a", "t", "i", "o", "n">>,
      <<"I", "n", "f", "l", "a", "t", "i", "o", "n">>,
      <<"U", "n", "e", "m", "p", "l", "o", "y", "m", "e", "n", "t">>,
      <<"I", "n", "d", "u", "s", "t", "r", "i", "a", "l", "P", "r", "o", "d">>,
      <<"G", "D", "P">>, <<"G", "D", "P", "R", "e", "a", "l">>,
      <<"I", "n", "t", "e", "r", "e", "s", "t", "R", "a", "t", "e">> }

----------------------------------------------------------------------------
(* pandas Series (one float per row) and DataFrame (name -> Series) *)

\* the value 0.00000001 of quarterly_changes
Epsilon == <<1, 100000000>>

ClipLo == Int2F(-1000)
ClipHi == Int2F(1000)

\* series.replace(to_replace, value)
replace(series, to_replace, value) ==
    [r \in DOMAIN series |-> IF FEq(series[r], to_replace) THEN value ELSE series[r]]

\* the change divided by the magnitude of the previous value
ratio_abs_denom(series_1, series_2, denom) ==
    [r \in DOMAIN series_1 |-> FDiv(FSub(series_2[r], series_1[r]), FAbs(denom[r]))]

\* (series_2 - series_1)/denom
ratio(series_1, series_2, denom) ==
    [r \in DOMAIN series_1 |-> FDiv(FSub(series_2[r], series_1[r]), denom[r])]

\* (series_1 == 0.0) & (series_2 == 0.0)
both_zero(series_1, series_2) ==
    [r \in DOMAIN series_1 |-> FEq(series_1[r], Zero) /\ FEq(series_2[r], Zero)]

\* mask called without its second argument: pandas then fills with NaN
mask_default_other(series, cond, other) ==
    [r \in DOMAIN series |-> IF cond[r] THEN NaN ELSE series[r]]

\* series.mask(cond, other)
mask(series, cond, other) ==
    [r \in DOMAIN series |-> IF cond[r] THEN other ELSE series[r]]

\* clip that bounds from below only
clip_lower_only(series, lower, upper) ==
    [r \in DOMAIN series |-> IF FLt(series[r], lower) THEN lower ELSE series[r]]

\* series.clip(lower, upper)
clip(series, lower, upper) ==
    [r \in DOMAIN series |->
        IF FLt(series[r], lower) THEN lower
        ELSE IF FLt(upper, series[r]) THEN upper
        ELSE series[r]]

\* the QoQ series of one adjacent quarter pair
qoq_series(series_1, series_2) ==
    LET denom == replace(series_1, Zero, Epsilon)
        qoq == ratio(series_1, series_2, denom)
    IN  clip(mask(qoq, both_zero(series_1, series_2), Zero), ClipLo, ClipHi)

\* f'{column}_QoQ_{q1[-4:]}_{q2[-4:]}'
QoQName(column, q1, q2) ==
    column \o QoQ_infix \o LastChars(q1, 4) \o <<underscore>> \o LastChars(q2, 4)

\* dataset[name] = series
SetColumn(ds, name, series) ==
    [c \in DOMAIN ds \cup {name} |-> IF c = name THEN series ELSE ds[c]]

\* for val in range(first, len(qs)): the loop body shared by the try and the
\* except block; keyerror is TRUE when dataset[...] raised KeyError.
RECURSIVE qoq_loop(_, _, _, _)
qoq_loop(ds, column, qs, val) ==
    IF val >= Len(qs) THEN [ds |-> ds, keyerror |-> FALSE]
    ELSE LET c1 == column \o qs[val]
             c2 == column \o qs[val + 1]
         IN  IF c1 \notin DOMAIN ds \/ c2 \notin DOMAIN ds
             THEN [ds |-> ds, keyerror |-> TRUE]
             ELSE qoq_loop(SetColumn(ds, QoQName(column, qs[val], qs[val + 1]),
                                     qoq_series(ds[c1], ds[c2])),
                           column, qs, val + 1)

\* the try block: for val in range(1, len(quarters))
try_block(ds, column, qs) == qoq_loop(ds, column, qs, 1)

\* an except block that starts again at the first pair
except_block_from_first(ds, column, qs) == qoq_loop(ds, column, qs, 1)

\* the except block: for val in range(2, len(quarters))
except_block(ds, column, qs) == qoq_loop(ds, column, qs, 2)

\* one iteration of 'for column in unique_columns'
quarterly_changes_column(ds, column, qs) ==
    LET t == try_block(ds, column, qs)
    IN  IF t.keyerror THEN except_block(t.ds, column, qs) ELSE t

\* quarterly_changes from the i-th column on: the table as mutated in place,
\* and the index of the column at which a KeyError escaped (0: returned).
RECURSIVE quarterly_changes_from(_, _, _, _)
quarterly_changes_from(ds, cols, qs, i) ==
    IF i > Len(cols) THEN [ds |-> ds, raised |-> 0]
    ELSE LET r == quarterly_changes_column(ds, cols[i], qs)
         IN  IF r.keyerror THEN [ds |-> r.ds, raised |-> i]
             ELSE quarterly_changes_from(r.ds, cols, qs, i + 1)

quarterly_changes(ds, cols, qs) == quarterly_changes_from(ds, cols, qs, 1)

\* the first token alone, for KPI columns as well
base_name_first_token(column) == Split(ReplaceChar(column, space, underscore), underscore)[1]

\* the base name get_unique_columns adds for one column
base_name(column) ==
    LET words == Split(ReplaceChar(column, space, underscore), underscore)
    IN  IF words[1] # KPI THEN words[1]
        ELSE words[1] \o <<underscore>> \o words[2]

\* the names get_unique_columns returns (as a set: list(set) fixes no order)
get_unique_columns(columns) == {base_name(c) : c \in columns} \ drop

----------------------------------------------------------------------------
(* safe_slope *)

\* non-finite entries replaced by 0.0 in place instead of removed
finite_zero_filled(a) == [i \in DOMAIN a |-> IF isfinite(a[i]) THEN a[i] ELSE Zero]

\* a[np.isfinite(a)]
finite(a) == SelectSeq(a, isfinite)

\* np.arange(n, dtype=float)
arange(n) == [i \in 1..n |-> Int2F(i - 1)]

\* x.sum()
RECURSIVE Sum(_)
Sum(x) == IF Len(x) = 0 THEN Zero ELSE FAdd(Head(x), Sum(Tail(x)))

\* x*y, element by element
Times(x, y) == [i \in DOMAIN x |-> FMul(x[i], y[i])]

\* np.isclose(a, b) with its default rtol=1e-05, atol=1e-08
isclose(a, b) ==
    IF isnan(a) \/ isnan(b) THEN FALSE
    ELSE IF ~isfinite(a) \/ ~isfinite(b) THEN a = b
    ELSE ~FLt(FAdd(<<1, 100000000>>, FMul(<<1, 100000>>, FAbs(b))), FAbs(FSub(a, b)))

\* an early exit that lets a single point through
few_points_lt1(n) == n < 1

\* n < 2: too few finite points
few_points(n) == n < 2

\* the denominator without the factor n
slope_denom_unscaled(n, St, Stt) == FSub(Stt, FMul(St, St))

\* n*Stt - St*St
slope_denom(n, St, Stt) == FSub(FMul(Int2F(n), Stt), FMul(St, St))

\* the numerator without the factor n
slope_num_unscaled(n, St, Sy, Sty) == FSub(Sty, FMul(St, Sy))

\* n*Sty - St*Sy
slope_num(n, St, Sy, Sty) == FSub(FMul(Int2F(n), Sty), FMul(St, Sy))

\* One call of safe_slope: the value returned, the line of the return
\* statement that returned it, and the divisor of the division performed
\* on the way (NaN when the call divides nothing).
safe_slope_call(v) ==
    LET a == finite(v)
        n == Len(a)
    IN  IF few_points(n) THEN [value |-> NaN, line |-> 171, divisor |-> NaN]
        ELSE LET t == arange(n)
                 St == Sum(t)
                 Sy == Sum(a)
                 Stt == Sum(Times(t, t))
                 Sty == Sum(Times(t, a))
                 denom == slope_denom(n, St, Stt)
             IN  IF isclose(denom, Zero)
                 THEN [value |-> Zero, line |-> 179, divisor |-> NaN]
                 ELSE [value |-> FDiv(slope_num(n, St, Sy, Sty), denom),
                       line |-> 181, divisor |-> denom]

safe_slope(v) == safe_slope_call(v).value

----------------------------------------------------------------------------
(* Rate columns *)

\* get_rate_columns: the set behind QoQ_columns (list(set) fixes no order)
\* and the sorted list QoQ_quarters
qoq_bases(ds) == {DropLastChars(c, 10) : c \in {x \in DOMAIN ds : Contains(QoQ, x)}}

\* the windows sorted in descending order
qoq_windows_descending(ds) ==
    LET l == SortedList({LastChars(c, 10) : c \in {x \in DOMAIN ds : Contains(QoQ, x)}})
    IN  [i \in DOMAIN l |-> l[Len(l) + 1 - i]]

qoq_windows(ds) ==
    SortedList({LastChars(c, 10) : c \in {x \in DOMAIN ds : Contains(QoQ, x)}})

\* row.get(name, np.nan) for every row
row_get(ds, name, rows) == IF name \in DOMAIN ds THEN ds[name] ELSE [r \in rows |-> NaN]

\* get_rate_data for one base name, applied to every row
rate_series(ds, col, qs, rows) ==
    [r \in rows |-> safe_slope([k \in 1..Len(qs) |-> row_get(ds, col \o qs[k], rows)[r]])]

\* dataset.apply(lambda r: get_rate_data(r, cols, qs), axis=1), from the
\* i-th base name on
RECURSIVE apply_get_rate_data(_, _, _, _, _)
apply_get_rate_data(ds, cols, qs, rows, i) ==
    IF i > Len(cols) THEN ds
    ELSE apply_get_rate_data(
             SetColumn(ds, cols[i] \o Rate_suffix, rate_series(ds, cols[i], qs, rows)),
             cols, qs, rows, i + 1)

----------------------------------------------------------------------------
(* The tables the stage is run on *)

\* Columns a quarter column is drawn from: one float per row.  The first
\* row holds the degenerate values (zeros, +Inf), the second the ordinary
\* magnitudes (and NaN).
ColumnPool ==
    << <<Zero, Int2F(100)>>,
       <<Int2F(3), Int2F(150)>>,
       <<Int2F(-2), <<1, 10>>>>,
       <<PInf, NaN>>,
       <<Int2F(2), Int2F(-100)>> >>

Rows == DOMAIN ColumnPool[1]

\* quarters for which the KPI column exists: all, not the first (a
\* two-quarter average), not the last, not a middle one
KPIPatterns == {{1, 2, 3, 4}, {2, 3, 4}, {1, 2, 3}, {1, 2, 4}}

StaticColumns ==
    [c \in {Ticker, Sector, MarketCap} |->
        IF c = Ticker THEN <<"AAA", "BBB">>
        ELSE IF c = Sector THEN <<"Energy", "Energy">>
        ELSE <<"Mid-Cap", "Small-Cap">>]

\* rv[k] = 0: no Revenue column for quarter k, else its pool column;
\* kp: the quarters that have a KPI_CashFlow column; pr: a Price column
Table(rv, kp, pr) ==
    LET rev == [c \in {Revenue \o quarters[k] : k \in {j \in DOMAIN rv : rv[j] # 0}} |->
                   ColumnPool[rv[CHOOSE k \in DOMAIN rv : c = Revenue \o quarters[k]]]]
        kpi == [c \in {KPI_CashFlow \o quarters[k] : k \in kp} |->
                   ColumnPool[CHOOSE k \in kp : c = KPI_CashFlow \o quarters[k]]]
        price == [c \in (IF pr THEN {Price} ELSE {}) |-> ColumnPool[2]]
    IN  StaticColumns @@ rev @@ kpi @@ price

Tables ==
    {Table(rv, kp, pr) : rv \in [DOMAIN quarters -> 0..PoolSize],
                         kp \in KPIPatterns, pr \in BOOLEAN}

\* sequences handed to safe_slope directly
SlopeValues == {NaN, PInf, NInf} \cup {Int2F(i) : i \in 0..MaxY}

SlopeInputs == UNION {[1..n -> SlopeValues] : n \in 0..MaxLen}

NoCall == [value |-> NaN, line |-> 0, divisor |-> NaN]

----------------------------------------------------------------------------
(* The __main__ script of make_QoQ.py on the training table.  The test     *)
(* table has the columns of the training table (both are row subsets of    *)
(* one table) and runs through the same calls with the same arguments.     *)

Init ==
    /\ pc = "get_unique_columns"
    /\ dataset \in Tables
    /\ unique_columns = <<>>
    /\ raised = 0
    /\ QoQ_columns = <<>>
    /\ QoQ_quarters = <<>>
    /\ vals = <<>>
    /\ ret = NoCall
    /\ FillIdle /\ PCAIdle /\ QuartersIdle /\ StagesIdle

\* unique_columns = get_unique_columns(columns)
GetUniqueColumns ==
    /\ pc = "get_unique_columns"
    /\ \E l \in ListsOf(get_unique_columns(DOMAIN dataset)) : unique_columns' = l
    /\ pc' = "quarterly_changes"
    /\ UNCHANGED <<dataset, raised, QoQ_columns, QoQ_quarters, vals, ret>>
    /\ UNCHANGED <<fill_vars, pca_vars, quarters_vars, stage_vars>>

\* train_dataset = quarterly_changes(train_dataset, unique_columns, quarters)
QuarterlyChanges ==
    /\ pc = "quarterly_changes"
    /\ LET r == quarterly_changes(dataset, unique_columns, quarters)
       IN  /\ dataset' = r.ds
           /\ raised' = r.raised
           /\ pc' = IF r.raised = 0 THEN "get_rate_columns" ELSE "raised"
    /\ UNCHANGED <<unique_columns, QoQ_columns, QoQ_quarters, vals, ret>>
    /\ UNCHANGED <<fill_vars, pca_vars, quarters_vars, stage_vars>>

\* QoQ_columns, QoQ_quarters = get_rate_columns(train_dataset)
GetRateColumns ==
    /\ pc = "get_rate_columns"
    /\ \E l \in ListsOf(qoq_bases(dataset)) : QoQ_columns' = l
    /\ QoQ_quarters' = qoq_windows(dataset)
    /\ pc' = "rate_QoQ"
    /\ UNCHANGED <<dataset, unique_columns, raised, vals, ret>>
    /\ UNCHANGED <<fill_vars, pca_vars, quarters_vars, stage_vars>>

\* train_dataset.apply(lambda r: get_rate_data(r, QoQ_columns, QoQ_quarters), axis=1)
RateQoQ ==
    /\ pc = "rate_QoQ"
    /\ dataset' = apply_get_rate_data(dataset, QoQ_columns, QoQ_quarters, Rows, 1)
    /\ pc' = "rate_base"
    /\ UNCHANGED <<unique_columns, raised, QoQ_columns, QoQ_quarters, vals, ret>>
    /\ UNCHANGED <<fill_vars, pca_vars, quarters_vars, stage_vars>>

\* train_dataset.apply(lambda r: get_rate_data(r, unique_columns, quarters), axis=1)
RateBase ==
    /\ pc = "rate_base"
    /\ dataset' = apply_get_rate_data(dataset, unique_columns, quarters, Rows, 1)
    /\ pc' = "done"
    /\ UNCHANGED <<unique_columns, raised, QoQ_columns, QoQ_quarters, vals, ret>>
    /\ UNCHANGED <<fill_vars, pca_vars, quarters_vars, stage_vars>>

Next == GetUniqueColumns \/ QuarterlyChanges \/ GetRateColumns \/ RateQoQ \/ RateBase

Spec == Init /\ [][Next]_vars

----------------------------------------------------------------------------
(* safe_slope called directly on a sequence *)

InitSlope ==
    /\ pc = "safe_slope"
    /\ vals \in SlopeInputs
    /\ ret = NoCall
    /\ dataset = <<>>
    /\ unique_columns = <<>>
    /\ raised = 0
    /\ QoQ_columns = <<>>
    /\ QoQ_quarters = <<>>
    /\ FillIdle /\ PCAIdle /\ QuartersIdle /\ StagesIdle

CallSafeSlope ==
    /\ pc = "safe_slope"
    /\ ret' = safe_slope_call(vals)
    /\ pc' = "returned"
    /\ UNCHANGED <<dataset, unique_columns, raised, QoQ_columns, QoQ_quarters, vals>>
    /\ UNCHANGED <<fill_vars, pca_vars, quarters_vars, stage_vars>>

NextSlope == CallSafeSlope

SpecSlope == InitSlope /\ [][NextSlope]_vars

----------------------------------------------------------------------------
(* Missing-value imputation: X_train_filled.py and X_train_X_test_filled.py *)
(* A table is a function column name -> column, a column a function row    *)
(* label -> cell.  Sector and Market Cap cells are strings, the other       *)
(* cells floats.                                                             *)

\* number of rows of the training table
FillRows == 3

EPS == <<"E", "P", "S">>

fundamental_prefixes ==
    << <<"C", "a", "p", "i", "t", "a", "l", "E", "x", "p", "e", "n", "d", "i", "t", "u", "r", "e">>,
       <<"C", "a", "s", "h", "A", "n", "d", "S", "T", "I", "n", "v", "e", "s", "t", "m", "e", "n", "t", "s">>,
       <<"C", "a", "s", "h", "F", "r", "o", "m", "O", "p", "s">>,
       <<"C", "o", "s", "t", "O", "f", "R", "e", "v", "e", "n", "u", "e">>,
       <<"C", "u", "r", "r", "e", "n", "t", "A", "s", "s", "e", "t", "s">>,
       <<"C", "u", "r", "r", "e", "n", "t", "L", "i", "a", "b", "i", "l", "i", "t", "i", "e", "s">>,
       <<"E", "P", "S">>,
       <<"I", "n", "c", "o", "m", "e", "T", "a", "x", "E", "x", "p", "e", "n", "s", "e">>,
       <<"I", "n", "t", "e", "r", "e", "s", "t", "E", "x", "p", "e", "n", "s", "e">>,
       <<"L", "o", "n", "g", "T", "e", "r", "m", "D", "e", "b", "t">>,
       <<"N", "e", "t", "I", "n", "c", "o", "m", "e">>,
       <<"O", "p", "e", "r", "a", "t", "i", "n", "g", "I", "n", "c", "o", "m", "e">>,
       <<"O", "t", "h", "e", "r", "O", "p", "e", "r", "a", "t", "i", "n", "g", "E", "x", "p", "e", "n", "s", "e">>,
       <<"R", "e", "v", "e", "n", "u", "e">>,
       <<"T", "o", "t", "a", "l", "A", "s", "s", "e", "t", "s">>,
       <<"T", "o", "t", "a", "l", "D", "e", "b", "t">>,
       <<"T", "o", "t", "a", "l", "E", "q", "u", "i", "t", "y">>,
       <<"T", "o", "t", "a", "l", "L", "i", "a", "b", "i", "l", "i", "t", "i", "e", "s">> >>

\* pd.NA, the default of medians.get
pd_NA == <<2, 0>>

\* pd.isna of a numeric cell
isna(x) == x \in {NaN, pd_NA}

\* str.startswith
startswith(s, p) == Len(s) >= Len(p) /\ SubSeq(s, 1, Len(p)) = p

\* any(c.startswith(p + "_") for p in fundamental_prefixes)
is_target(c) ==
    \E k \in DOMAIN fundamental_prefixes : startswith(c, fundamental_prefixes[k] \o <<underscore>>)

\* df.columns of the tables the two scripts read, in file order
FillColumns == <<Sector, MarketCap, Price, Revenue \o quarters[1], EPS \o quarters[1]>>

\* a fundamentals column that only some test files hold
NetIncomeQ == <<"N", "e", "t", "I", "n", "c", "o", "m", "e">> \o quarters[1]

df_columns(t) == SelectSeq(FillColumns \o <<NetIncomeQ>>, LAMBDA c : c \in DOMAIN t)

\* [c for c in df.columns if any(...)]
target_cols(t) == SelectSeq(df_columns(t), is_target)

\* df.index
Index(t) == DOMAIN t[Sector]

\* the key of groupby(['Sector','Market Cap']) for a row
strata(t, i) == <<t[Sector][i], t[MarketCap][i]>>

\* the strata group of a row, were the frame grouped by Sector alone
group_by_sector_only(t, i) == {j \in Index(t) : t[Sector][j] = t[Sector][i]}

\* the rows of a row's group
group(t, i) == {j \in Index(t) : strata(t, j) = strata(t, i)}

\* the cells of a column over a set of rows, in index order
RECURSIVE cells(_, _)
cells(column, rows) ==
    IF rows = {} THEN <<>>
    ELSE LET i == CHOOSE r \in rows : \A q \in rows : r <= q
         IN  <<column[i]>> \o cells(column, rows \ {i})

notna(x) == ~isna(x)

\* ascending sort of finite floats
RECURSIVE sort_values(_)
sort_values(s) ==
    IF s = <<>> THEN <<>>
    ELSE LET k == CHOOSE a \in DOMAIN s : \A b \in DOMAIN s : ~FLt(s[b], s[a])
         IN  <<s[k]>> \o sort_values([j \in 1..(Len(s) - 1) |-> IF j < k THEN s[j] ELSE s[j + 1]])

\* Series.median(): missing values skipped, NaN when nothing is left, the
\* mean of the two middle values for an even count
median(s) ==
    LET v == sort_values(SelectSeq(s, notna))
        n == Len(v)
    IN  IF n = 0 THEN NaN
        ELSE IF n % 2 = 1 THEN v[(n + 1) \div 2]
        ELSE FDiv(FAdd(v[n \div 2], v[n \div 2 + 1]), Int2F(2))

\* s.fillna(value)
fillna(x, value) == IF isna(x) THEN value ELSE x

\* df.groupby(['Sector','Market Cap'])[col].transform(lambda s: s.fillna(s.median()))
transform_fillna_median(t, col) ==
    [i \in Index(t) |-> fillna(t[col][i], median(cells(t[col], group(t, i))))]

\* groupby(...)[col] raises KeyError for a column the frame does not have
KeyError(t, cols) == \E k \in DOMAIN cols : cols[k] \notin DOMAIN t

\* for col in target_cols: df[col] = df.groupby(...)[col].transform(...);
\* the loop ends at the first column that raises
RECURSIVE self_fill(_, _, _)
self_fill(t, cols, k) ==
    IF k > Len(cols) \/ cols[k] \notin DOMAIN t THEN t
    ELSE self_fill([t EXCEPT ![cols[k]] = transform_fillna_median(t, cols[k])], cols, k + 1)

\* pd.isna of a cell of a column; the Sector and Market Cap strings of the
\* tables below are never missing
isna_cell(c, x) == IF c \in {Sector, MarketCap} THEN FALSE ELSE isna(x)

\* a frame left as it is
dropna_nothing(t) == t

\* df.dropna(): the rows without a missing cell in any column
dropna(t) ==
    LET keep == {i \in Index(t) : \A c \in DOMAIN t : ~isna_cell(c, t[c][i])}
    IN  [c \in DOMAIN t |-> [i \in keep |-> t[c][i]]]

\* the frame the reference medians would be grouped from, were it the
\* self-filled training frame
reference_table_self_filled(train, original_train, new_test) == original_train

\* the frame the reference medians are grouped from: df_train
reference_table(train, original_train, new_test) == train

\* df_train.groupby(['Sector','Market Cap'])[col].median(): one entry per
\* key that occurs in the frame
groupby_median(t, col) ==
    [k \in {strata(t, i) : i \in Index(t)} |->
        median(cells(t[col], {i \in Index(t) : strata(t, i) = k}))]

\* a lookup that falls back on some group's median
medians_get_any_group(m, key, default) ==
    IF key \in DOMAIN m THEN m[key]
    ELSE IF DOMAIN m = {} THEN default
    ELSE m[CHOOSE k \in DOMAIN m : TRUE]

\* medians.get(key, default)
medians_get(m, key, default) == IF key \in DOMAIN m THEN m[key] ELSE default

\* df_new_test.apply(lambda row: medians.get((row['Sector'], row['Market Cap']), pd.NA)
\*                               if pd.isna(row[col]) else row[col], axis=1)
apply_reference(t, m, col) ==
    [i \in Index(t) |->
        IF isna(t[col][i]) THEN medians_get(m, strata(t, i), pd_NA) ELSE t[col][i]]

\* the loop of the new method over target_cols_new
RECURSIVE reference_fill(_, _, _, _)
reference_fill(t, ref, cols, k) ==
    IF k > Len(cols) THEN t
    ELSE reference_fill([t EXCEPT ![cols[k]] = apply_reference(t, groupby_median(ref, cols[k]), cols[k])],
                        ref, cols, k + 1)

(* The tables the scripts are run on *)

TrainKeys == {<<"Tech", "Small-Cap">>, <<"Tech", "Large-Cap">>}

\* keys of the first test row: one the training table may hold, one it never holds
TestKeys == {<<"Tech", "Large-Cap">>, <<"Energy", "Small-Cap">>}

FillValues == {NaN, Int2F(1), Int2F(3)}

\* a table from its strata keys and its Price, Revenue and EPS columns
FillTable(keys, price, revenue, eps) ==
    [c \in {FillColumns[k] : k \in DOMAIN FillColumns} |->
        IF c = Sector THEN [i \in DOMAIN keys |-> keys[i][1]]
        ELSE IF c = MarketCap THEN [i \in DOMAIN keys |-> keys[i][2]]
        ELSE IF c = Price THEN price
        ELSE IF c = Revenue \o quarters[1] THEN revenue
        ELSE eps]

\* training tables: a Tech Small-Cap first row, any keys for the other rows,
\* any Revenue cells; EPS complete or missing in the first row; Price
\* complete or missing in the last row
TrainTables ==
    {FillTable(keys,
               [i \in 1..FillRows |-> IF price_gap /\ i = FillRows THEN NaN ELSE Int2F(5)],
               revenue,
               [i \in 1..FillRows |-> IF eps_gap /\ i = 1 THEN NaN ELSE Int2F(2)]) :
        keys \in {k \in [1..FillRows -> TrainKeys] : k[1] = <<"Tech", "Small-Cap">>},
        revenue \in [1..FillRows -> FillValues],
        price_gap \in BOOLEAN, eps_gap \in BOOLEAN}

\* test tables of two rows: the first of another pair than Tech Small-Cap with
\* Revenue present or missing, the second a Tech Small-Cap row with Revenue
\* and EPS missing
TestTables ==
    {FillTable(<<key, <<"Tech", "Small-Cap">>>>, <<Int2F(5), Int2F(5)>>,
               <<revenue, NaN>>, <<Int2F(2), NaN>>) :
        key \in TestKeys, revenue \in {NaN, Int2F(7)}}

(* X_train_filled.py *)

InitXTrainFilled ==
    /\ pc = "X_train_filled"
    /\ X_train_csv \in TrainTables
    /\ df = X_train_csv
    /\ df_train = NoTable
    /\ df_test = NoTable
    /\ df_original_train = NoTable
    /\ df_new_test = NoTable
    /\ medians = <<>>

\* lines 20-24: the fill loop over target_cols
XTrainFilled_Fill ==
    /\ pc = "X_train_filled"
    /\ df' = self_fill(df, target_cols(df), 1)
    /\ pc' = "X_train_filled_dropna"
    /\ UNCHANGED <<X_train_csv, df_train, df_test, df_original_train, df_new_test, medians>>
    /\ UNCHANGED <<qoq_vars, pca_vars, quarters_vars, stage_vars>>

\* lines 29-30: df = df.dropna(); df.to_csv(args.output_file)
XTrainFilled_Dropna ==
    /\ pc = "X_train_filled_dropna"
    /\ df' = dropna(df)
    /\ pc' = "X_train_filled_done"
    /\ UNCHANGED <<X_train_csv, df_train, df_test, df_original_train, df_new_test, medians>>
    /\ UNCHANGED <<qoq_vars, pca_vars, quarters_vars, stage_vars>>

(* X_train_X_test_filled.py *)

\* the columns both loops would run over, were they the training file's
target_cols_old(train, test) == target_cols(train)

\* line 26: the columns both loops run over, taken from df_test
target_cols_new(train, test) == target_cols(test)

InitXTrainXTestFilled ==
    /\ pc = "self_fill"
    /\ X_train_csv \in TrainTables
    /\ df_train = X_train_csv
    /\ df_test \in TestTables
    /\ df_original_train = df_train
    /\ df_new_test = df_test
    /\ df = NoTable
    /\ medians = <<>>

\* lines 29-31: df_original_train = df_train.copy() and the fill loop
SelfFill ==
    /\ pc = "self_fill"
    /\ df_original_train' = self_fill(df_train, target_cols_new(df_train, df_test), 1)
    /\ pc' = IF KeyError(df_train, target_cols_new(df_train, df_test)) THEN "KeyError" ELSE "dropna_train"
    /\ UNCHANGED <<X_train_csv, df, df_train, df_test, df_new_test, medians>>
    /\ UNCHANGED <<qoq_vars, pca_vars, quarters_vars, stage_vars>>

\* lines 32-33: df_original_train.dropna() and to_csv(args.train_output)
DropnaTrain ==
    /\ pc = "dropna_train"
    /\ df_original_train' = dropna(df_original_train)
    /\ pc' = "reference_fill"
    /\ UNCHANGED <<X_train_csv, df, df_train, df_test, df_new_test, medians>>
    /\ UNCHANGED <<qoq_vars, pca_vars, quarters_vars, stage_vars>>

\* lines 36-42: df_new_test = df_test.copy() and the fill loop
ReferenceFill ==
    /\ pc = "reference_fill"
    /\ LET ref == reference_table(df_train, df_original_train, df_test)
           cols == target_cols_new(df_train, df_test)
       IN  /\ medians' = [c \in {cols[k] : k \in DOMAIN cols} |-> groupby_median(ref, c)]
           /\ df_new_test' = reference_fill(df_test, ref, cols, 1)
    /\ pc' = "dropna_test"
    /\ UNCHANGED <<X_train_csv, df, df_train, df_test, df_original_train>>
    /\ UNCHANGED <<qoq_vars, pca_vars, quarters_vars, stage_vars>>

\* lines 43-44: df_new_test.dropna() and to_csv(args.test_output)
DropnaTest ==
    /\ pc = "dropna_test"
    /\ df_new_test' = dropna(df_new_test)
    /\ pc' = "filled"
    /\ UNCHANGED <<X_train_csv, df, df_train, df_test, df_original_train, medians>>
    /\ UNCHANGED <<qoq_vars, pca_vars, quarters_vars, stage_vars>>

InitFill ==
    /\ InitXTrainFilled \/ InitXTrainXTestFilled
    /\ QoQIdle /\ ret = NoCall /\ PCAIdle /\ QuartersIdle /\ StagesIdle

NextFill ==
    \/ XTrainFilled_Fill
    \/ XTrainFilled_Dropna
    \/ SelfFill
    \/ DropnaTrain
    \/ ReferenceFill
    \/ DropnaTest

SpecFill == InitFill /\ [][NextFill]_vars

(* X_train_X_test_filled.py on a test file whose fundamentals columns are
   not those of the training file *)

\* a test table without its EPS column, or with a NetIncome column more
OtherColumns(t) ==
    { [c \in DOMAIN t \ {EPS \o quarters[1]} |-> t[c]],
      [c \in DOMAIN t \cup {NetIncomeQ} |-> IF c = NetIncomeQ THEN <<Int2F(4), NaN>> ELSE t[c]] }

InitFillColumns ==
    /\ pc = "self_fill"
    /\ X_train_csv \in TrainTables
    /\ df_train = X_train_csv
    /\ \E t \in TestTables : df_test \in OtherColumns(t)
    /\ df_original_train = df_train
    /\ df_new_test = df_test
    /\ df = NoTable
    /\ medians = <<>>
    /\ QoQIdle /\ ret = NoCall /\ PCAIdle /\ QuartersIdle /\ StagesIdle

NextFillColumns ==
    \/ SelfFill
    \/ DropnaTrain
    \/ ReferenceFill
    \/ DropnaTest

SpecFillColumns == InitFillColumns /\ [][NextFillColumns]_vars

----------------------------------------------------------------------------
(* helpers.get_quarters *)

Revenue_2024Q1 == <<"R", "e", "v", "e", "n", "u", "e", "_", "2", "0", "2", "4", "Q", "1">>

\* column[-2] or column[-7] raises IndexError: a name of fewer than 2
\* characters, or of fewer than 7 whose last but one is 'Q'
raises_IndexError(column) ==
    \/ Len(column) < 2
    \/ Len(column) < 7 /\ column[Len(column) - 1] = "Q"

\* both tests of lines 11-12 pass
is_quarter_column(column) ==
    /\ Len(column) >= 7
    /\ column[Len(column) - 1] = "Q"
    /\ column[Len(column) - 6] = underscore

\* the loop of lines 10-13 from column k on: the set collected up to the end
\* of the columns, or up to the first column that raises
collect_quarters(cols, k, found) ==
    LET failing == {j \in k..Len(cols) : raises_IndexError(cols[j])}
        stop == IF failing = {} THEN Len(cols) + 1
                ELSE CHOOSE j \in failing : \A i \in failing : j <= i
    IN  [raised |-> IF failing = {} THEN "" ELSE "IndexError",
         quarters |-> found \cup {LastChars(cols[j], 7) :
                                    j \in {i \in k..(stop - 1) : is_quarter_column(cols[i])}}]

\* quarters.discard('_2024Q1') unless 'Revenue_2024Q1' is a column
discard_2024Q1(cols, found) ==
    IF \E k \in DOMAIN cols : cols[k] = Revenue_2024Q1 THEN found
    ELSE found \ {LastChars(Revenue_2024Q1, 7)}

get_quarters(cols) ==
    LET r == collect_quarters(cols, 1, {})
    IN  IF r.raised # "" THEN [raised |-> r.raised, quarters |-> <<>>]
        ELSE [raised |-> "", quarters |-> SortedList(discard_2024Q1(cols, r.quarters))]

\* column names a table handed to get_quarters may have
ColumnNames ==
    << <<"T", "i", "c", "k", "e", "r">>,
       <<"R", "e", "v", "e", "n", "u", "e", "_", "2", "0", "2", "4", "Q", "1">>,
       <<"R", "e", "v", "e", "n", "u", "e", "_", "2", "0", "2", "4", "Q", "2">>,
       <<"E", "P", "S", "_", "2", "0", "2", "4", "Q", "1">>,
       <<"E", "P", "S", "_", "2", "0", "2", "5", "Q", "1">>,
       <<"N", "o", "t", "e", "_", "F", "Y", "2", "4", "Q", "4">>,
       <<"F", "Q", "4">>,
       <<"P">> >>

\* the columns of a table: any selection of the names, in their order
Selection(chosen) ==
    LET RECURSIVE pick(_)
        pick(k) == IF k > Len(ColumnNames) THEN <<>>
                   ELSE (IF k \in chosen THEN <<ColumnNames[k]>> ELSE <<>>) \o pick(k + 1)
    IN  pick(1)

NotReturned == [raised |-> "", quarters |-> <<>>]

InitQuarters ==
    /\ pc = "get_quarters"
    /\ \E chosen \in SUBSET DOMAIN ColumnNames : input_columns = Selection(chosen)
    /\ returned_quarters = NotReturned
    /\ QoQIdle /\ ret = NoCall /\ FillIdle /\ PCAIdle /\ StagesIdle

CallGetQuarters ==
    /\ pc = "get_quarters"
    /\ returned_quarters' = get_quarters(input_columns)
    /\ pc' = IF returned_quarters'.raised = "" THEN "returned" ELSE "raised"
    /\ UNCHANGED <<input_columns, qoq_vars, fill_vars, pca_vars, stage_vars>>

NextQuarters == CallGetQuarters

SpecQuarters == InitQuarters /\ [][NextQuarters]_vars

----------------------------------------------------------------------------
(* extract_features.py and unsupervised_helpers.py                          *)
(* A table is [columns, data]: its column names in file order and a tag     *)
(* for its rows.  Matrices, fitted objects and projections are kept as      *)
(* terms: a fitted object records what it was fit on, a projection what was *)
(* projected and by which fit, so two of them are equal exactly when they   *)
(* come from the same fit applied to the same input.  Tables are taken to   *)
(* have the 50 numeric columns and rows that PCA(50) needs; a column name   *)
(* of the model stands for the columns of its kind.                          *)

\* how many times the script is run
MaxRuns == 2

Unnamed_0 == <<"U", "n", "n", "a", "m", "e", "d", ":", " ", "0">>

pca_all_pickle == "pca_all.pickle"
pca_KPI_pickle == "pca_KPI.pickle"
kmeans_pickle == "kmeans.pickle"

\* dtype of a column: the identifier columns hold strings
is_number(c) == c \notin {Ticker, Sector, MarketCap}

\* dataset.drop(columns=['Unnamed: 0']) if the column is there
drop_unnamed(t) == [t EXCEPT !.columns = SelectSeq(@, LAMBDA c : c # Unnamed_0)]

\* input_df.select_dtypes(include='number')
select_dtypes_number(t) == [t EXCEPT !.columns = SelectSeq(@, is_number)]

\* get_KPI: the columns with 'KPI' and without 'QoQ' in their name
get_KPI(t) == [t EXCEPT !.columns = SelectSeq(@, LAMBDA c : Contains(KPI, c) /\ ~Contains(QoQ, c))]

\* scaler.fit_transform raises ValueError on a frame without columns
process_for_PCA_raises(t) == select_dtypes_number(t).columns = <<>>

\* process_for_PCA with its defaults: the numeric columns, scaled by a
\* QuantileTransformer that is fit on them and dropped on return
process_for_PCA(t) ==
    LET numeric == select_dtypes_number(t)
        scaler == [class |-> "QuantileTransformer", fitted_on |-> numeric]
    IN  [features |-> numeric.columns, data |-> numeric.data, scaled_by |-> scaler.class]

\* PCA(n)
PCA(n) == [class |-> "PCA", n_components |-> n, fitted |-> FALSE]

\* number of columns of a matrix or of a projection
n_features(X) == IF "features" \in DOMAIN X THEN Len(X.features) ELSE X.n_components

\* pca.fit(X)
pca_fit(pca, X) ==
    [class |-> "PCA", n_components |-> pca.n_components, fitted |-> TRUE,
     fitted_on |-> X, n_features_in |-> n_features(X)]

\* pca.transform(X): NotFittedError before a fit, ValueError for another
\* number of features
pca_transform(pca, X) ==
    IF ~pca.fitted THEN [raised |-> "NotFittedError"]
    ELSE IF n_features(X) # pca.n_features_in THEN [raised |-> "ValueError"]
    ELSE [projection_of |-> X, by |-> pca.fitted_on, n_components |-> pca.n_components]

\* KMeans(n_clusters=7, init='random', n_init=100, copy_x=False)
KMeans(n) == [class |-> "KMeans", n_clusters |-> n, fitted |-> FALSE]

\* kmeans.fit(X): the centres depend on the random initialisations
kmeans_fit(kmeans, X, seed) ==
    [class |-> "KMeans", n_clusters |-> kmeans.n_clusters, fitted |-> TRUE,
     fitted_on |-> X, seed |-> seed, n_features_in |-> n_features(X)]

\* kmeans.predict(X)
kmeans_predict(kmeans, X) ==
    IF ~kmeans.fitted THEN [raised |-> "NotFittedError"]
    ELSE IF n_features(X) # kmeans.n_features_in THEN [raised |-> "ValueError"]
    ELSE [labels_of |-> X, by |-> <<kmeans.fitted_on, kmeans.seed>>]

\* the object dumped to pca_KPI.pickle, were it the first PCA
pca_KPI_dumped_first_pca(pca, pca_KPI) == pca

\* the object dumped to pca_KPI.pickle (lines 41-43)
pca_KPI_dumped(pca, pca_KPI) == pca_KPI

\* a file written with pickle.dump
dump(files, name, obj) == [f \in DOMAIN files \cup {name} |-> IF f = name THEN obj ELSE files[f]]

\* the index pd.read_csv and pd.DataFrame(ndarray) give a frame of n rows
RangeIndex(n) == [k \in 1..n |-> k - 1]

\* position of a label in an index of distinct labels, 0 when it is not there
get_loc(index, label) ==
    IF \E k \in DOMAIN index : index[k] = label
    THEN CHOOSE k \in DOMAIN index : index[k] = label
    ELSE 0

\* the rows of pd.concat((dataset, frames made from ndarrays), axis=1): one
\* per label of the union of the indexes, holding the cells of the dataset
\* row and of the extracted row that carry the label (position 0: missing)
concat(index, extracted_index) ==
    [label \in {index[k] : k \in DOMAIN index} \cup {extracted_index[k] : k \in DOMAIN extracted_index} |->
        [dataset_row |-> get_loc(index, label), extracted_row |-> get_loc(extracted_index, label)]]

\* extract_features(df) followed by augmented_df.to_csv: the files under
\* pickles/, the objects at the return and the table written; a ValueError
\* of process_for_PCA ends the script with the files written so far
extract_features(input, seed, files, written) ==
    LET dataset_copy == drop_unnamed(input)
        pca_df == process_for_PCA(dataset_copy)
        pca == pca_fit(PCA(50), pca_df)
        X_PCA == pca_transform(pca, pca_df)
        files_1 == dump(files, pca_all_pickle, pca)
        subset_df == get_KPI(dataset_copy)
        subset_pca_df == process_for_PCA(subset_df)
        pca_KPI == pca_fit(PCA(10), pca_df)
        X_PCA_KPI == pca_transform(pca_KPI, pca_df)
        files_2 == dump(files_1, pca_KPI_pickle, pca_KPI_dumped(pca, pca_KPI))
        kmeans == kmeans_fit(KMeans(7), X_PCA_KPI, seed)
        cluster == kmeans_predict(kmeans, X_PCA_KPI)
        files_3 == dump(files_2, kmeans_pickle, kmeans)
    IN  IF process_for_PCA_raises(dataset_copy)
        THEN [status |-> "raised", pickles |-> files, fitted |-> <<>>, augmented_df |-> written]
        ELSE IF process_for_PCA_raises(subset_df)
        THEN [status |-> "raised", pickles |-> files_1, fitted |-> <<>>, augmented_df |-> written]
        ELSE [status |-> "done", pickles |-> files_3,
              fitted |-> [pca |-> pca, pca_KPI |-> pca_KPI, kmeans |-> kmeans],
              augmented_df |-> [columns |-> dataset_copy.columns, data |-> dataset_copy.data,
                                PCA_all |-> X_PCA, PCA_KPI |-> X_PCA_KPI, Cluster |-> cluster,
                                rows |-> concat(dataset_copy.index,
                                                RangeIndex(Len(dataset_copy.index)))]]

(* The tables the script is run on *)

PCAColumns ==
    <<Unnamed_0, Sector, Revenue \o quarters[1], KPI_CashFlow \o quarters[1],
      QoQName(KPI_CashFlow, quarters[1], quarters[2])>>

PCATables ==
    {[columns |-> SelectSeq(PCAColumns, LAMBDA c : c \in chosen), data |-> rows,
      index |-> RangeIndex(2)] :
        chosen \in SUBSET {PCAColumns[k] : k \in DOMAIN PCAColumns},
        rows \in {"train", "test"}}

\* outcomes of the random initialisation of K-Means
Seeds == {"a", "b"}

InitPCA ==
    /\ pc = "not_run"
    /\ PCAIdle
    /\ QoQIdle /\ ret = NoCall /\ FillIdle /\ QuartersIdle /\ StagesIdle

\* one run of the script: df = pd.read_csv(args.input_file),
\* extract_features(df), augmented_df.to_csv(args.output_file)
ExtractFeatures ==
    /\ runs < MaxRuns
    /\ \E df_read \in PCATables, seed \in Seeds :
          LET r == extract_features(df_read, seed, pickles, augmented_df)
          IN  /\ input_df' = df_read
              /\ pickles' = r.pickles
              /\ fitted' = r.fitted
              /\ augmented_df' = r.augmented_df
              /\ pc' = r.status
    /\ runs' = runs + 1
    /\ UNCHANGED <<qoq_vars, fill_vars, quarters_vars, stage_vars>>

NextPCA == ExtractFeatures

SpecPCA == InitPCA /\ [][NextPCA]_vars

(* extract_features called on a frame that did not come from read_csv *)

\* indexes of a frame of two rows: the range index, and the indexes a
\* shuffle, a filter and a split leave
IndexPool == {<<0, 1>>, <<1, 0>>, <<0, 2>>, <<5, 7>>}

InitExtract ==
    /\ pc = "not_called"
    /\ PCAIdle
    /\ QoQIdle /\ ret = NoCall /\ FillIdle /\ QuartersIdle /\ StagesIdle

\* augmented_df = extract_features(input_df)
CallExtractFeatures ==
    /\ pc = "not_called"
    /\ \E t \in PCATables, index \in IndexPool, seed \in Seeds :
          LET r == extract_features([t EXCEPT !.index = index], seed, pickles, augmented_df)
          IN  /\ input_df' = [t EXCEPT !.index = index]
              /\ pickles' = r.pickles
              /\ fitted' = r.fitted
              /\ augmented_df' = r.augmented_df
              /\ pc' = r.status
    /\ runs' = runs + 1
    /\ UNCHANGED <<qoq_vars, fill_vars, quarters_vars, stage_vars>>

NextExtract == CallExtractFeatures

SpecExtract == InitExtract /\ [][NextExtract]_vars

----------------------------------------------------------------------------
(* What the properties below speak of *)

\* base names a table of Tables can give rise to
Metrics == {Revenue, KPI_CashFlow, Price}

\* the adjacent quarter pairs (q_k, q_k+1)
Pairs == 1..(Len(quarters) - 1)

PrevCol(m, k) == m \o quarters[k]
CurCol(m, k) == m \o quarters[k + 1]
OutCol(m, k) == QoQName(m, quarters[k], quarters[k + 1])

\* the QoQ cells written so far: metric, pair and row
QoQCells ==
    {x \in Metrics \X Pairs \X Rows : OutCol(x[1], x[2]) \in DOMAIN dataset}

Prev(x) == dataset[PrevCol(x[1], x[2])][x[3]]
Cur(x) == dataset[CurCol(x[1], x[2])][x[3]]
Out(x) == dataset[OutCol(x[1], x[2])][x[3]]

\* (cur - prev)/guarded_denominator, as the specification writes it
RawRatio(prev, cur) ==
    FDiv(FSub(cur, prev), IF FEq(prev, Zero) THEN <<1, 100000000>> ELSE prev)

\* quarterly_changes has been called and has returned or raised
AfterQuarterlyChanges == pc \in {"get_rate_columns", "raised"}

(* C1: wherever quarterly_changes wrote a QoQ value for a row whose two
   quarter values are both 0, the value written is exactly 0.0. *)
C1_BothZeroGivesZero ==
    \A x \in QoQCells : (Prev(x) = Zero /\ Cur(x) = Zero) => Out(x) = Zero

C1_Witness ==
    \E x \in QoQCells : Prev(x) = Zero /\ Cur(x) = Zero /\ Out(x) = Zero

(* C2: every QoQ value written is missing or lies in [-1000, 1000]; a raw
   ratio above 1000 is written as exactly 1000 and one below -1000 as
   exactly -1000, also when the previous value is 0 and epsilon divides. *)
C2_ClampedToBounds ==
    \A x \in QoQCells :
        /\ isnan(Out(x)) \/ (~FLt(Out(x), Int2F(-1000)) /\ ~FLt(Int2F(1000), Out(x)))
        /\ FLt(Int2F(1000), RawRatio(Prev(x), Cur(x))) => Out(x) = Int2F(1000)
        /\ FLt(RawRatio(Prev(x), Cur(x)), Int2F(-1000)) => Out(x) = Int2F(-1000)

C2_Witness ==
    /\ \E x \in QoQCells : Prev(x) = Zero /\ Cur(x) = Int2F(3) /\ Out(x) = Int2F(1000)
    /\ \E x \in QoQCells : Prev(x) = Zero /\ Cur(x) = Int2F(-2) /\ Out(x) = Int2F(-1000)
    /\ \E x \in QoQCells : Prev(x) = <<1, 10>> /\ Cur(x) = Int2F(150) /\ Out(x) = Int2F(1000)

(* C3: for a row whose previous value is not 0 and whose ratio
   (cur - prev)/prev is at most 1000 in absolute value, the QoQ value
   written is that ratio, the division being by the signed previous value
   (100 -> 150 gives 0.5). *)
C3_RatioBySignedPrev ==
    \A x \in QoQCells :
        LET q == FDiv(FSub(Cur(x), Prev(x)), Prev(x))
        IN  (~isnan(Prev(x)) /\ Prev(x) # Zero /\ ~isnan(q) /\ ~FLt(Int2F(1000), FAbs(q)))
                => Out(x) = q

C3_Witness ==
    /\ \E x \in QoQCells : Prev(x) = Int2F(100) /\ Cur(x) = Int2F(150) /\ Out(x) = <<1, 2>>
    /\ \E x \in QoQCells : Prev(x) = Int2F(-2) /\ Cur(x) = Int2F(3) /\ Out(x) = <<-5, 2>>

(* C4: for every base metric of unique_columns and every pattern of present
   and absent quarter columns, quarterly_changes returns without raising
   and the QoQ columns of the metric are exactly those of the adjacent
   pairs whose two quarter columns are both present. *)
C4_NeverRaises ==
    AfterQuarterlyChanges =>
        /\ raised = 0
        /\ \A j \in DOMAIN unique_columns : \A k \in Pairs :
               LET m == unique_columns[j]
               IN  OutCol(m, k) \in DOMAIN dataset
                       <=> (PrevCol(m, k) \in DOMAIN dataset /\ CurCol(m, k) \in DOMAIN dataset)

\* the names of the three QoQ columns of a metric, written out
QoQ_24Q2_24Q3 == <<"_", "Q", "o", "Q", "_", "2", "4", "Q", "2", "_", "2", "4", "Q", "3">>
QoQ_24Q3_24Q4 == <<"_", "Q", "o", "Q", "_", "2", "4", "Q", "3", "_", "2", "4", "Q", "4">>
QoQ_24Q4_25Q1 == <<"_", "Q", "o", "Q", "_", "2", "4", "Q", "4", "_", "2", "5", "Q", "1">>

\* the first quarter column of m is absent and all later ones are present
FirstQuarterMissing(m) ==
    /\ m \o quarters[1] \notin DOMAIN dataset
    /\ \A k \in 2..Len(quarters) : m \o quarters[k] \in DOMAIN dataset

\* the columns of the table named m_QoQ_...
QoQColumnsOf(m) ==
    {c \in DOMAIN dataset : Len(c) > Len(m) + 5 /\ SubSeq(c, 1, Len(m) + 5) = m \o QoQ_infix}

(* C5: for a metric whose first quarter column is absent and whose later
   ones are present, the KeyError does not escape at that metric, and once
   the metric is processed its QoQ columns are exactly m_QoQ_24Q3_24Q4 and
   m_QoQ_24Q4_25Q1: one per adjacent pair from the second quarter on, named
   by the last four characters of both quarters, none for the first. *)
C5_FirstQuarterMissing ==
    AfterQuarterlyChanges =>
        \A j \in DOMAIN unique_columns :
            LET m == unique_columns[j]
            IN  FirstQuarterMissing(m) =>
                    /\ raised # j
                    /\ (raised = 0 \/ j < raised) =>
                           QoQColumnsOf(m) = {m \o QoQ_24Q3_24Q4, m \o QoQ_24Q4_25Q1}

C5_Witness ==
    /\ pc = "get_rate_columns"
    /\ FirstQuarterMissing(KPI_CashFlow)
    /\ QoQColumnsOf(KPI_CashFlow) =
           {KPI_CashFlow \o QoQ_24Q3_24Q4, KPI_CashFlow \o QoQ_24Q4_25Q1}
    /\ KPI_CashFlow \o QoQ_24Q2_24Q3 \notin DOMAIN dataset

----------------------------------------------------------------------------
(* Properties of safe_slope, called directly *)

Returned == pc = "returned"

\* how many entries of v are finite
NFinite(v) == Cardinality({i \in DOMAIN v : v[i] \notin {NaN, PInf, NInf}})

\* v without its NaN and Inf entries, the others in their order
RECURSIVE DropNonFinite(_)
DropNonFinite(v) ==
    IF v = <<>> THEN <<>>
    ELSE IF Head(v) \in {NaN, PInf, NInf} THEN DropNonFinite(Tail(v))
    ELSE <<Head(v)>> \o DropNonFinite(Tail(v))

(* C6: safe_slope returns NaN for every sequence with fewer than 2 finite
   values and a finite number for every other sequence. *)
C6_NaNIffFewerThanTwo ==
    Returned =>
        /\ NFinite(vals) < 2 => ret.value = NaN
        /\ NFinite(vals) >= 2 => ret.value \notin {NaN, PInf, NInf}

C6_Witness ==
    /\ Returned
    /\ Len(vals) = 3
    /\ NFinite(vals) = 1
    /\ ret.value = NaN

\* v has at least 2 entries, all finite, on a line y_t = a + b*t
OnALine(v) ==
    /\ Len(v) >= 2
    /\ NFinite(v) = Len(v)
    /\ \A i \in 1..(Len(v) - 1) : FSub(v[i + 1], v[i]) = FSub(v[2], v[1])

(* C7: for n >= 2 finite values on a line y_t = a + b*t, t = 0..n-1,
   safe_slope returns b: 2 for [1, 3, 5, 7], 0 for a constant sequence. *)
C7_SlopeOfLine ==
    (Returned /\ OnALine(vals)) => ret.value = FSub(vals[2], vals[1])

C7_Witness ==
    /\ Returned
    /\ vals = <<Int2F(1), Int2F(3), Int2F(5), Int2F(7)>>
    /\ ret.value = Int2F(2)

(* C8: safe_slope of a sequence is safe_slope of its finite entries in
   their order: the time index is assigned after the non-finite entries
   are removed, so [1, NaN, 3] has the slope 2 of [1, 3]. *)
C8_GapsDoNotStretchTime ==
    Returned =>
        /\ ret.value = safe_slope(DropNonFinite(vals))
        /\ vals = <<Int2F(1), NaN, Int2F(3)>> => ret.value = Int2F(2)

C8_Witness ==
    /\ Returned
    /\ vals = <<Int2F(1), NaN, Int2F(3)>>
    /\ ret.value = Int2F(2)

\* n*Sum(t^2) - (Sum t)^2 for t = 0..n-1, in integers
RECURSIVE SumT(_)
SumT(n) == IF n = 0 THEN 0 ELSE (n - 1) + SumT(n - 1)

RECURSIVE SumTT(_)
SumTT(n) == IF n = 0 THEN 0 ELSE (n - 1) * (n - 1) + SumTT(n - 1)

DesignDenominator(n) == n * SumTT(n) - SumT(n) * SumT(n)

(* C9: safe_slope never divides by a zero denominator; it returns through
   the 0.0 branch exactly when n >= 2 points are retained and
   n*Sum(t^2) - (Sum t)^2 is zero, and through the NaN branch exactly when
   fewer than 2 are retained. *)
C9_NoDivisionByZero ==
    Returned =>
        /\ ret.line = 181 => (ret.divisor \notin {NaN, PInf, NInf} /\ ret.divisor # Zero)
        /\ ret.line = 179 <=>
               (NFinite(vals) >= 2 /\ DesignDenominator(NFinite(vals)) = 0)
        /\ ret.line = 179 => ret.value = Zero
        /\ ret.line = 171 <=> NFinite(vals) < 2
        /\ ret.line = 171 => ret.value = NaN

C9_Witness ==
    /\ Returned
    /\ NFinite(vals) = 2
    /\ Len(vals) = 4
    /\ ret.line = 181
    /\ ret.divisor = Int2F(1)

----------------------------------------------------------------------------
(* Properties of the Rate columns *)

\* the cells of column name, NaN in every row when the table has no such column
CellsOrMissing(name) == IF name \in DOMAIN dataset THEN dataset[name] ELSE [r \in Rows |-> NaN]

QoQ_suffix == <<"_", "Q", "o", "Q">>

\* the table has a QoQ series for m
HasQoQSeries(m) ==
    \E w \in {QoQ_24Q2_24Q3, QoQ_24Q3_24Q4, QoQ_24Q4_25Q1} : m \o w \in DOMAIN dataset

(* C10: after the stage, every base metric m has a column m_Rate holding,
   row by row, safe_slope of the values of m over the quarters in
   chronological order, and every QoQ series m_QoQ has a column m_QoQ_Rate
   holding safe_slope of its transitions in chronological order; an absent
   quarter or transition column counts as a missing point. *)
C10_RateColumns ==
    pc = "done" =>
        \A j \in DOMAIN unique_columns :
            LET m == unique_columns[j]
            IN  /\ m \o Rate_suffix \in DOMAIN dataset
                /\ \A r \in Rows :
                       dataset[m \o Rate_suffix][r] =
                           safe_slope(<<CellsOrMissing(m \o quarters[1])[r],
                                        CellsOrMissing(m \o quarters[2])[r],
                                        CellsOrMissing(m \o quarters[3])[r],
                                        CellsOrMissing(m \o quarters[4])[r]>>)
                /\ HasQoQSeries(m) =>
                       /\ m \o QoQ_suffix \o Rate_suffix \in DOMAIN dataset
                       /\ \A r \in Rows :
                              dataset[m \o QoQ_suffix \o Rate_suffix][r] =
                                  safe_slope(<<CellsOrMissing(m \o QoQ_24Q2_24Q3)[r],
                                               CellsOrMissing(m \o QoQ_24Q3_24Q4)[r],
                                               CellsOrMissing(m \o QoQ_24Q4_25Q1)[r]>>)

C10_Witness ==
    /\ pc = "done"
    /\ Revenue \o QoQ_24Q2_24Q3 \in DOMAIN dataset
    /\ KPI_CashFlow \o QoQ_24Q2_24Q3 \notin DOMAIN dataset
    /\ dataset[KPI_CashFlow \o QoQ_suffix \o Rate_suffix][1] = <<-2995, 3>>
    /\ dataset[Revenue \o QoQ_suffix \o Rate_suffix][1] \notin {NaN, Zero}
    /\ dataset[Revenue \o Rate_suffix][2] \notin {NaN, Zero}

----------------------------------------------------------------------------
(* Properties of the imputation scripts *)

RevenueQ == Revenue \o quarters[1]
EPSQ == EPS \o quarters[1]

\* the fundamentals columns of the training file
TargetColumns == {c \in DOMAIN X_train_csv : is_target(c)}

SameStrata(t, i, u, j) == t[Sector][i] = u[Sector][j] /\ t[MarketCap][i] = u[MarketCap][j]

\* the rows of table u in the strata group of row i of table t that hold a value in column c
GroupValues(t, i, u, c) == {j \in DOMAIN u[c] : SameStrata(t, i, u, j) /\ u[c][j] # NaN}

\* x has rank k among the cells of the rows: fewer than k are smaller, at least k are not greater
HasRank(x, k, column, rows) ==
    /\ Cardinality({j \in rows : FLt(column[j], x)}) < k
    /\ Cardinality({j \in rows : ~FLt(x, column[j])}) >= k

\* m is the median of the cells of a non-empty set of rows: the mean of the
\* cells of rank (n+1) div 2 and n div 2 + 1
IsMedianOf(m, column, rows) ==
    LET n == Cardinality(rows)
    IN  \E a, b \in rows :
           /\ HasRank(column[a], (n + 1) \div 2, column, rows)
           /\ HasRank(column[b], n \div 2 + 1, column, rows)
           /\ FAdd(m, m) = FAdd(column[a], column[b])

\* what a fill that takes its medians from table u leaves in a cell of table t
FilledAsClaimed(out, t, i, u, c) ==
    LET g == GroupValues(t, i, u, c)
    IN  IF t[c][i] # NaN THEN out = t[c][i]
        ELSE IF g = {} THEN out \in {NaN, pd_NA}
        ELSE IsMedianOf(out, u[c], g)

\* the self-filled training frame, once the fill loop has run
SelfFillRan == pc \notin {"X_train_filled", "self_fill"} /\ X_train_csv # NoTable

SelfFilled == IF df # NoTable THEN df ELSE df_original_train

ReferenceFillRan == pc \in {"dropna_test", "filled"}

(* C11: once the self-fill loop has run, every cell of every fundamentals
   column is the cell of the training file if that was not missing, else the
   median of the non-missing cells of the column over the rows of the
   training file with the same Sector and Market Cap, and is missing when
   no such cell exists. *)
C11_SelfFill ==
    SelfFillRan =>
        \A c \in TargetColumns : \A i \in DOMAIN SelfFilled[c] :
            FilledAsClaimed(SelfFilled[c][i], X_train_csv, i, X_train_csv, c)

\* a missing Revenue was filled with 2, the median of a group holding 1 and 3,
\* while the row's own Price stayed missing
C11_Witness ==
    /\ pc \in {"X_train_filled_dropna", "dropna_train"}
    /\ \E i \in DOMAIN SelfFilled[RevenueQ] :
          /\ X_train_csv[RevenueQ][i] = NaN
          /\ SelfFilled[RevenueQ][i] = Int2F(2)
          /\ SelfFilled[Price][i] = NaN

(* C12: once the reference-fill loop has run, every cell of every
   fundamentals column of the test frame is the cell of the test file if
   that was not missing, else the median of the column over the rows of the
   training file with the same Sector and Market Cap; it is missing when the
   pair does not occur in the training file. *)
C12_ReferenceFill ==
    ReferenceFillRan =>
        \A c \in TargetColumns : \A i \in DOMAIN df_new_test[c] :
            /\ FilledAsClaimed(df_new_test[c][i], df_test, i, X_train_csv, c)
            /\ (df_test[c][i] = NaN /\ ~\E j \in DOMAIN X_train_csv[c] : SameStrata(df_test, i, X_train_csv, j))
                  => df_new_test[c][i] \in {NaN, pd_NA}

\* one missing test cell got the median 2 of a training group holding 1 and
\* 3, another belongs to a pair the training file does not have and stayed missing
C12_Witness ==
    /\ pc = "dropna_test"
    /\ \E i \in DOMAIN df_new_test[RevenueQ] :
          df_test[RevenueQ][i] = NaN /\ df_new_test[RevenueQ][i] = Int2F(2)
    /\ \E i \in DOMAIN df_new_test[RevenueQ] :
          /\ df_test[RevenueQ][i] = NaN
          /\ ~\E j \in DOMAIN X_train_csv[RevenueQ] : SameStrata(df_test, i, X_train_csv, j)
          /\ df_new_test[RevenueQ][i] = pd_NA

\* the medians of a column per strata key of the training file
IsRawMedians(m, c) ==
    /\ DOMAIN m = {<<X_train_csv[Sector][j], X_train_csv[MarketCap][j]>> : j \in DOMAIN X_train_csv[c]}
    /\ \A j \in DOMAIN X_train_csv[c] :
          LET g == GroupValues(X_train_csv, j, X_train_csv, c)
              v == m[<<X_train_csv[Sector][j], X_train_csv[MarketCap][j]>>]
          IN  IF g = {} THEN v = NaN ELSE IsMedianOf(v, X_train_csv[c], g)

(* C13: the medians the reference-fill used are the per-group medians of
   the training file as read (not of the self-filled frame), and they are
   the medians the loop computes whatever test table is being filled. *)
C13_MediansFromTrainingOnly ==
    ReferenceFillRan =>
        \A c \in DOMAIN medians :
            /\ IsRawMedians(medians[c], c)
            /\ \A t \in TestTables :
                  groupby_median(reference_table(df_train, df_original_train, t), c) = medians[c]

\* the self-filled frame would have given other medians than the ones used
C13_Witness ==
    /\ pc = "dropna_test"
    /\ df_new_test # df_test
    /\ \E c \in DOMAIN medians : groupby_median(df_original_train, c) # medians[c]

\* a row of table t that a fill from table u cannot complete
CannotBeFilled(t, i, u) ==
    \E c \in TargetColumns : t[c][i] = NaN /\ GroupValues(t, i, u, c) = {}

NoMissingTarget(t) ==
    \A c \in TargetColumns : \A i \in DOMAIN t[c] : t[c][i] \notin {NaN, pd_NA}

(* C14: the tables written by self-fill and by reference-fill have no
   missing value in a fundamentals column, and no row that the fill could
   not complete. *)
C14_CompletenessGate ==
    /\ pc \in {"X_train_filled_done", "reference_fill", "dropna_test", "filled"} =>
          /\ NoMissingTarget(SelfFilled)
          /\ \A i \in DOMAIN X_train_csv[Sector] :
                CannotBeFilled(X_train_csv, i, X_train_csv) => i \notin DOMAIN SelfFilled[Sector]
    /\ pc = "filled" =>
          /\ NoMissingTarget(df_new_test)
          /\ \A i \in DOMAIN df_test[Sector] :
                CannotBeFilled(df_test, i, X_train_csv) => i \notin DOMAIN df_new_test[Sector]

\* both outputs lost a row the fill could not complete and kept another
C14_Witness ==
    /\ pc = "filled"
    /\ \E i \in DOMAIN df_test[Sector] : CannotBeFilled(df_test, i, X_train_csv)
    /\ \E i \in DOMAIN X_train_csv[Sector] : CannotBeFilled(X_train_csv, i, X_train_csv)
    /\ DOMAIN df_new_test[Sector] # {}
    /\ DOMAIN SelfFilled[Sector] # {}

----------------------------------------------------------------------------
(* Properties of get_quarters *)

Digits == {"0", "1", "2", "3", "4", "5", "6", "7", "8", "9"}

\* the name ends in '_' + four digits + 'Q' + one digit
EndsInQuarterLabel(c) ==
    /\ Len(c) >= 7
    /\ LET s == SubSeq(c, Len(c) - 6, Len(c))
       IN  /\ s[1] = "_"
           /\ \A k \in {2, 3, 4, 5, 7} : s[k] \in Digits
           /\ s[6] = "Q"

QuarterLabelsOf(cols) ==
    {SubSeq(cols[k], Len(cols[k]) - 6, Len(cols[k])) : k \in {j \in DOMAIN cols : EndsInQuarterLabel(cols[j])}}

IsAscending(l) == \A k \in 1..(Len(l) - 1) : StrLt(l[k], l[k + 1])

(* C20: for every list of column names get_quarters returns, without
   raising, the ascending duplicate-free list of the 7-character suffixes of
   the names that end in '_' + four digits + 'Q' + one digit, with '_2024Q1'
   only if the column 'Revenue_2024Q1' is present. *)
C20_GetQuarters ==
    pc # "get_quarters" =>
        /\ pc = "returned"
        /\ returned_quarters.raised = ""
        /\ IsAscending(returned_quarters.quarters)
        /\ {returned_quarters.quarters[k] : k \in DOMAIN returned_quarters.quarters}
              = discard_2024Q1(input_columns, QuarterLabelsOf(input_columns))

----------------------------------------------------------------------------
(* Properties of the feature-extraction script *)

Artifacts == {pca_all_pickle, pca_KPI_pickle, kmeans_pickle}

\* the scaled matrix of all numeric columns of the table of the last run
FullMatrix == process_for_PCA(drop_unnamed(input_df))

\* the scaled matrix of its KPI columns
KPIMatrix == process_for_PCA(get_KPI(drop_unnamed(input_df)))

(* C15: after extract_features, pca_KPI is fit on the scaled matrix of the
   KPI columns selected by get_KPI, and the PCA_KPI_PC* columns and the
   input of K-Means are projections of that matrix. *)
C15_KPIOnlyPCA ==
    pc = "done" =>
        /\ fitted.pca_KPI.fitted_on = KPIMatrix
        /\ augmented_df.PCA_KPI.projection_of = KPIMatrix
        /\ fitted.kmeans.fitted_on.projection_of = KPIMatrix

\* the objects that remain after a run: the pickled files and the objects
\* the function still holds when it returns
KeptObjects == {pickles[f] : f \in DOMAIN pickles} \cup {fitted[o] : o \in DOMAIN fitted}

(* C16: after extract_features, the scaler that transformed the table (its
   class and what it was fit on) is among the objects that are kept. *)
C16_ScalerKept ==
    pc = "done" =>
        \E o \in KeptObjects :
            /\ o.class = FullMatrix.scaled_by
            /\ o.fitted_on = select_dtypes_number(drop_unnamed(input_df))

(* C17: after extract_features, each pickled file holds the object as it is
   at the return, and loading it and applying it to the input it was fit on
   gives the PCA_all_PC*, PCA_KPI_PC* and Cluster values of the table
   written. *)
C17_RoundTrip ==
    pc = "done" =>
        /\ DOMAIN pickles = Artifacts
        /\ pickles[pca_all_pickle] = fitted.pca
        /\ pickles[pca_KPI_pickle] = fitted.pca_KPI
        /\ pickles[kmeans_pickle] = fitted.kmeans
        /\ pca_transform(pickles[pca_all_pickle], fitted.pca.fitted_on) = augmented_df.PCA_all
        /\ pca_transform(pickles[pca_KPI_pickle], fitted.pca_KPI.fitted_on) = augmented_df.PCA_KPI
        /\ kmeans_predict(pickles[kmeans_pickle], augmented_df.PCA_KPI) = augmented_df.Cluster

\* a second run completed on a table with numeric columns besides its KPI
\* columns, over the files of an earlier run
C17_Witness ==
    /\ pc = "done"
    /\ runs = 2
    /\ Len(FullMatrix.features) > Len(KPIMatrix.features)
    /\ augmented_df.PCA_all.n_components # augmented_df.PCA_KPI.n_components

(* C18: once the three artifacts exist, no run of the script changes a
   pickled file. *)
C18_ArtifactsNeverRefit ==
    [][DOMAIN pickles = Artifacts => pickles' = pickles]_vars

(* C19: a run on a table whose number of numeric feature columns differs
   from the number pca_all was fit on ends in an error and writes no table. *)
C19_DimensionMismatchRejected ==
    [][(/\ pca_all_pickle \in DOMAIN pickles
        /\ runs' = runs + 1
        /\ Len(select_dtypes_number(drop_unnamed(input_df')).columns)
              # pickles[pca_all_pickle].n_features_in)
       => (pc' = "raised" /\ augmented_df' = augmented_df)]_vars

----------------------------------------------------------------------------
(* Properties of get_unique_columns *)

\* the first position from k on at which s holds a space or an underscore,
\* Len(s) + 1 when there is none
RECURSIVE TokenEnd(_, _)
TokenEnd(s, k) ==
    IF k > Len(s) \/ s[k] \in {space, underscore} THEN k ELSE TokenEnd(s, k + 1)

\* the base metric of a column name: its first token, or for a KPI column
\* 'KPI_' and its second token
BaseMetric(c) ==
    LET e == TokenEnd(c, 1)
    IN  IF SubSeq(c, 1, e - 1) # <<"K", "P", "I">> THEN SubSeq(c, 1, e - 1)
        ELSE <<"K", "P", "I", "_">> \o SubSeq(c, e + 1, TokenEnd(c, e + 1) - 1)

InputColumns == DOMAIN dataset

(* C21: the names get_unique_columns returns are exactly the base metrics
   of the columns that are not excluded identifiers, each once. *)
C21_BaseMetrics ==
    pc = "quarterly_changes" =>
        /\ {unique_columns[k] : k \in DOMAIN unique_columns}
              = {b \in {BaseMetric(c) : c \in InputColumns} : b \notin drop}
        /\ \A j, k \in DOMAIN unique_columns : unique_columns[j] = unique_columns[k] => j = k
        /\ \A k \in DOMAIN unique_columns :
              unique_columns[k] \notin {Ticker, Sector, <<"M", "a", "r", "k", "e", "t">>}

\* Revenue, KPI_CashFlow and Price were returned for a table that also has
\* the Ticker, Sector and Market Cap columns
C21_Witness ==
    /\ pc = "quarterly_changes"
    /\ {unique_columns[k] : k \in DOMAIN unique_columns} = {Revenue, KPI_CashFlow, Price}
    /\ {Ticker, Sector, MarketCap} \subseteq InputColumns

(* C22: the list get_unique_columns returns is the ascending list of its
   names, so the same column names always give the same sequence. *)
C22_SortedBaseMetrics ==
    pc = "quarterly_changes" =>
        unique_columns = SortedList({unique_columns[k] : k \in DOMAIN unique_columns})

(* C27: for n >= 2 finite points the denominator of safe_slope is
   n^2 * (n^2 - 1) / 12 > 0, the call never returns through the 0.0 branch,
   and it returns NaN exactly when fewer than 2 finite points remain. *)
C27_DenominatorClosedForm ==
    Returned =>
        LET n == NFinite(vals)
        IN  /\ n >= 2 => /\ ret.line = 181
                         /\ FMul(Int2F(12), ret.divisor) = Int2F(n * n * (n * n - 1))
                         /\ FLt(Zero, ret.divisor)
            /\ ret.line # 179
            /\ (ret.value = NaN) <=> (n < 2)

\* three finite points and a gap: the denominator is 9 * 8 / 12 = 6
C27_Witness ==
    /\ Returned
    /\ Len(vals) > NFinite(vals)
    /\ NFinite(vals) = 3
    /\ ret.divisor = Int2F(6)

(* C28: the imputation scripts keep every row whose fundamentals columns
   are all present after the fill, whatever is missing in its other
   columns. *)
C28_OnlyUnfilledRowsRemoved ==
    /\ pc \in {"X_train_filled_done", "reference_fill", "dropna_test", "filled"} =>
          \A i \in DOMAIN X_train_csv[Sector] :
              ~CannotBeFilled(X_train_csv, i, X_train_csv) => i \in DOMAIN SelfFilled[Sector]
    /\ pc = "filled" =>
          \A i \in DOMAIN df_test[Sector] :
              ~CannotBeFilled(df_test, i, X_train_csv) => i \in DOMAIN df_new_test[Sector]

(* C29: in the two-table script the self-fill of the training frame does
   not raise, and it fills every fundamentals column of the training file
   from the training file's own groups, whatever fundamentals columns the
   test file has. *)
C29_OwnColumnsSelfFilled ==
    /\ pc # "KeyError"
    /\ pc = "dropna_train" =>
          \A c \in TargetColumns : \A i \in DOMAIN df_original_train[c] :
              FilledAsClaimed(df_original_train[c][i], X_train_csv, i, X_train_csv, c)

(* C30: the frame extract_features returns has exactly one row per row of
   the input frame, and the PCA and Cluster cells of a row are the ones
   extracted from that row, whatever the index of the input frame. *)
C30_OneRowPerInputRow ==
    pc = "done" =>
        /\ Cardinality(DOMAIN augmented_df.rows) = Len(input_df.index)
        /\ \A label \in DOMAIN augmented_df.rows :
              /\ augmented_df.rows[label].dataset_row # 0
              /\ augmented_df.rows[label].extracted_row = augmented_df.rows[label].dataset_row

----------------------------------------------------------------------------
(* make_KPIs.py                                                             *)
(* A frame is [columns, cell]: its column names in order and, for each     *)
(* column, the float of one company.  The arithmetic of make_KPIs is done  *)
(* row by row, so one row stands for every row of the frame.               *)

\* number of quarters the frames handed to make_KPIs may span
KPIQuarters == 3
CostOfRevenue == <<"C", "o", "s", "t", "O", "f", "R", "e", "v", "e", "n", "u", "e">>
NetIncome == <<"N", "e", "t", "I", "n", "c", "o", "m", "e">>
CurrentAssets == <<"C", "u", "r", "r", "e", "n", "t", "A", "s", "s", "e", "t", "s">>
CurrentLiabilities == <<"C", "u", "r", "r", "e", "n", "t", "L", "i", "a", "b", "i", "l", "i", "t", "i", "e", "s">>
TotalAssets == <<"T", "o", "t", "a", "l", "A", "s", "s", "e", "t", "s">>
TotalEquity == <<"T", "o", "t", "a", "l", "E", "q", "u", "i", "t", "y">>
TotalDebt == <<"T", "o", "t", "a", "l", "D", "e", "b", "t">>
CashFromOps == <<"C", "a", "s", "h", "F", "r", "o", "m", "O", "p", "s">>

\* the KPIs in the order of their loops
KPI_names ==
    << <<"K", "P", "I", "_", "G", "r", "o", "s", "s", "P", "r", "o", "f", "i", "t", "M", "a", "r", "g", "i", "n">>,
       <<"K", "P", "I", "_", "N", "e", "t", "P", "r", "o", "f", "i", "t", "M", "a", "r", "g", "i", "n">>,
       <<"K", "P", "I", "_", "W", "o", "r", "k", "i", "n", "g", "C", "a", "p", "i", "t", "a", "l">>,
       <<"K", "P", "I", "_", "C", "u", "r", "r", "e", "n", "t", "R", "a", "t", "i", "o">>,
       <<"K", "P", "I", "_", "L", "e", "v", "e", "r", "a", "g", "e">>,
       <<"K", "P", "I", "_", "D", "e", "b", "t", "T", "o", "E", "q", "u", "i", "t", "y", "R", "a", "t", "i", "o">>,
       <<"K", "P", "I", "_", "T", "o", "t", "a", "l", "A", "s", "s", "e", "t", "T", "u", "r", "n", "o", "v", "e", "r">>,
       <<"K", "P", "I", "_", "R", "e", "t", "u", "r", "n", "O", "n", "E", "q", "u", "i", "t", "y">>,
       <<"K", "P", "I", "_", "R", "e", "t", "u", "r", "n", "O", "n", "A", "s", "s", "e", "t", "s">>,
       <<"K", "P", "I", "_", "C", "a", "s", "h", "F", "l", "o", "w">> >>

\* the loops over range(len(quarters) - 1): the two-quarter averages
two_quarter == {7, 8, 9}

\* beg, end = i, i + 1: the position of the quarter before quarters[end]
beg_same_quarter(end) == end

beg(end) == end - 1

\* the base columns the loop of KPI j reads for quarters[k]
kpi_operands(j, qs, k) ==
    CASE j = 1 -> {Revenue \o qs[k], CostOfRevenue \o qs[k]}
      [] j = 2 -> {NetIncome \o qs[k], Revenue \o qs[k]}
      [] j \in {3, 4} -> {CurrentAssets \o qs[k], CurrentLiabilities \o qs[k]}
      [] j = 5 -> {TotalAssets \o qs[k], TotalEquity \o qs[k]}
      [] j = 6 -> {TotalDebt \o qs[k], TotalEquity \o qs[k]}
      [] j = 7 -> {Revenue \o qs[k], TotalAssets \o qs[beg(k)], TotalAssets \o qs[k]}
      [] j = 8 -> {NetIncome \o qs[k], TotalEquity \o qs[beg(k)], TotalEquity \o qs[k]}
      [] j = 9 -> {NetIncome \o qs[k], TotalAssets \o qs[beg(k)], TotalAssets \o qs[k]}
      [] OTHER -> {CashFromOps \o qs[k]}

\* the right-hand side of the assignment in the loop of KPI j for quarters[k]
kpi_value(j, c, qs, k) ==
    CASE j = 1 -> FDiv(FSub(c[Revenue \o qs[k]], c[CostOfRevenue \o qs[k]]), c[Revenue \o qs[k]])
      [] j = 2 -> FDiv(c[NetIncome \o qs[k]], c[Revenue \o qs[k]])
      [] j = 3 -> FSub(c[CurrentAssets \o qs[k]], c[CurrentLiabilities \o qs[k]])
      [] j = 4 -> FDiv(c[CurrentAssets \o qs[k]], c[CurrentLiabilities \o qs[k]])
      [] j = 5 -> FDiv(c[TotalAssets \o qs[k]], c[TotalEquity \o qs[k]])
      [] j = 6 -> FDiv(c[TotalDebt \o qs[k]], c[TotalEquity \o qs[k]])
      [] j = 7 -> FDiv(c[Revenue \o qs[k]],
                       FDiv(FAdd(c[TotalAssets \o qs[beg(k)]], c[TotalAssets \o qs[k]]), Int2F(2)))
      [] j = 8 -> FDiv(c[NetIncome \o qs[k]],
                       FDiv(FAdd(c[TotalEquity \o qs[beg(k)]], c[TotalEquity \o qs[k]]), Int2F(2)))
      [] j = 9 -> FDiv(c[NetIncome \o qs[k]],
                       FDiv(FAdd(c[TotalAssets \o qs[beg(k)]], c[TotalAssets \o qs[k]]), Int2F(2)))
      [] OTHER -> c[CashFromOps \o qs[k]]

\* dataset[name] = value: a new column goes last
set_column(t, name, value) ==
    [columns |-> IF name \in DOMAIN t.cell THEN t.columns ELSE Append(t.columns, name),
     cell |-> [c \in DOMAIN t.cell \cup {name} |-> IF c = name THEN value ELSE t.cell[c]]]

\* the loop of KPI j from quarters[k] on; a base column that is not in the
\* frame raises KeyError
RECURSIVE kpi_loop(_, _, _, _)
kpi_loop(t, j, qs, k) ==
    IF k > Len(qs) THEN [raised |-> "", dataset |-> t]
    ELSE IF ~(kpi_operands(j, qs, k) \subseteq DOMAIN t.cell) THEN [raised |-> "KeyError", dataset |-> t]
    ELSE kpi_loop(set_column(t, KPI_names[j] \o qs[k], kpi_value(j, t.cell, qs, k)), j, qs, k + 1)

\* the loops of KPI j, j + 1, ... in turn
RECURSIVE kpi_loops(_, _, _)
kpi_loops(t, j, qs) ==
    IF j > Len(KPI_names) THEN [raised |-> "", dataset |-> t]
    ELSE LET r == kpi_loop(t, j, qs, IF j \in two_quarter THEN 2 ELSE 1)
         IN  IF r.raised # "" THEN r ELSE kpi_loops(r.dataset, j + 1, qs)

\* make_KPIs(input_df): the frame returned or the exception that escapes
make_KPIs(input) ==
    LET q == get_quarters(input.columns)
    IN  IF q.raised # "" THEN [raised |-> q.raised, dataset |-> input]
        ELSE kpi_loops(input, 1, q.quarters)

(* The frames make_KPIs is called on *)

\* the base metrics of a quarter, in the order of the values below
KPIBase ==
    <<Revenue, CostOfRevenue, NetIncome, CurrentAssets, CurrentLiabilities,
      TotalAssets, TotalEquity, TotalDebt, CashFromOps>>

\* the values a company may report for a quarter: a plain quarter, one with
\* zero revenue, liabilities and equity, one with a loss, negative equity
\* and a missing value
KPIValues ==
    << <<Int2F(4), Int2F(1), Int2F(2), Int2F(6), Int2F(3), Int2F(8), Int2F(2), Int2F(4), Int2F(5)>>,
       <<Zero, Zero, Int2F(1), Int2F(2), Zero, Int2F(4), Zero, Int2F(1), Int2F(-3)>>,
       <<Int2F(10), Int2F(4), Int2F(-2), NaN, Int2F(5), Int2F(6), Int2F(-2), Int2F(3), Int2F(7)>> >>

\* a frame with the nine base columns of the chosen quarters, holding the
\* values chosen for each quarter, without the columns left out
KPIFrame(chosen, values, left_out) ==
    LET names == [k \in 1..(9 * KPIQuarters) |->
                     KPIBase[((k - 1) % 9) + 1] \o quarters[((k - 1) \div 9) + 1]]
        kept == SelectSeq(names, LAMBDA c : \E q \in chosen : LastChars(c, 7) = quarters[q] /\ c \notin left_out)
    IN  [columns |-> <<Ticker>> \o kept,
         cell |-> [c \in {kept[k] : k \in DOMAIN kept} \cup {Ticker} |->
                     IF c = Ticker THEN Zero
                     ELSE LET q == CHOOSE q \in chosen : LastChars(c, 7) = quarters[q]
                              m == CHOOSE m \in DOMAIN KPIBase : KPIBase[m] \o quarters[q] = c
                          IN  KPIValues[values[q]][m]]]

KPIFrames ==
    {KPIFrame(chosen, values, left_out) :
        chosen \in SUBSET (1..KPIQuarters),
        values \in [1..KPIQuarters -> DOMAIN KPIValues],
        left_out \in {{}, {CostOfRevenue \o quarters[1]}, {TotalEquity \o quarters[2]}}}

InitKPIs ==
    /\ pc = "make_KPIs"
    /\ KPI_input \in KPIFrames
    /\ KPI_df = NoTable
    /\ QoQIdle /\ ret = NoCall /\ FillIdle /\ PCAIdle /\ QuartersIdle
    /\ StrataIdle /\ FetchIdle /\ CleanIdle

\* KPI_df = make_KPIs(df)
CallMakeKPIs ==
    /\ pc = "make_KPIs"
    /\ KPI_df' = make_KPIs(KPI_input)
    /\ pc' = IF KPI_df'.raised = "" THEN "KPIs_returned" ELSE "KPIs_raised"
    /\ UNCHANGED <<KPI_input, qoq_vars, fill_vars, pca_vars, quarters_vars>>
    /\ UNCHANGED <<strata_vars, fetch_vars, clean_vars>>

NextKPIs == CallMakeKPIs

SpecKPIs == InitKPIs /\ [][NextKPIs]_vars

(* Properties of make_KPIs *)

\* the quarters get_quarters returns for the frame passed in
KPIQuarterList == get_quarters(KPI_input.columns).quarters

\* the cell of the frame passed in for a base metric and a quarter
Base(metric, quarter) == KPI_input.cell[metric \o quarter]

\* the mean of two cells
Mean(x, y) == FDiv(FAdd(x, y), Int2F(2))

\* a KPI of one quarter, from the cells of that quarter
SingleQuarterKPI(j, q) ==
    CASE j = 1 -> FDiv(FSub(Base(Revenue, q), Base(CostOfRevenue, q)), Base(Revenue, q))
      [] j = 2 -> FDiv(Base(NetIncome, q), Base(Revenue, q))
      [] j = 3 -> FSub(Base(CurrentAssets, q), Base(CurrentLiabilities, q))
      [] j = 4 -> FDiv(Base(CurrentAssets, q), Base(CurrentLiabilities, q))
      [] j = 5 -> FDiv(Base(TotalAssets, q), Base(TotalEquity, q))
      [] j = 6 -> FDiv(Base(TotalDebt, q), Base(TotalEquity, q))
      [] OTHER -> Base(CashFromOps, q)

\* a two-quarter KPI, from the cells of a quarter and of the one before it
TwoQuarterKPI(j, before, q) ==
    CASE j = 7 -> FDiv(Base(Revenue, q), Mean(Base(TotalAssets, before), Base(TotalAssets, q)))
      [] j = 8 -> FDiv(Base(NetIncome, q), Mean(Base(TotalEquity, before), Base(TotalEquity, q)))
      [] OTHER -> FDiv(Base(NetIncome, q), Mean(Base(TotalAssets, before), Base(TotalAssets, q)))

(* C23: when make_KPIs returns, the frame holds the input columns with
   their values, in their order, followed by nothing but KPI columns: for
   every quarter of get_quarters one column per single-quarter KPI computed
   from the cells of that quarter, and for every quarter but the earliest
   one column per two-quarter KPI computed from that quarter and the one
   before it in the list; no two-quarter KPI column for the earliest. *)
C23_KPIColumns ==
    pc = "KPIs_returned" =>
        LET qs == KPIQuarterList
            out == KPI_df.dataset
        IN  /\ SubSeq(out.columns, 1, Len(KPI_input.columns)) = KPI_input.columns
            /\ \A c \in DOMAIN KPI_input.cell : out.cell[c] = KPI_input.cell[c]
            /\ \A k \in DOMAIN qs : \A j \in DOMAIN KPI_names :
                  IF j \notin two_quarter
                  THEN /\ KPI_names[j] \o qs[k] \in DOMAIN out.cell
                       /\ out.cell[KPI_names[j] \o qs[k]] = SingleQuarterKPI(j, qs[k])
                  ELSE IF k = 1 THEN KPI_names[j] \o qs[k] \notin DOMAIN out.cell
                  ELSE /\ KPI_names[j] \o qs[k] \in DOMAIN out.cell
                       /\ out.cell[KPI_names[j] \o qs[k]] = TwoQuarterKPI(j, qs[k - 1], qs[k])
            /\ Len(out.columns) = Len(KPI_input.columns) + 7 * Len(qs)
                                     + (IF qs = <<>> THEN 0 ELSE 3 * (Len(qs) - 1))
            /\ Cardinality(DOMAIN out.cell) = Len(out.columns)

\* three quarters: the return on equity of the second is infinite, because
\* the equity of the first two quarters adds up to zero, and the gross
\* profit margin of the third is undefined
C23_Witness ==
    /\ pc = "KPIs_returned"
    /\ Len(KPIQuarterList) = 3
    /\ KPI_df.dataset.cell[KPI_names[8] \o quarters[2]] = NInf
    /\ KPI_df.dataset.cell[KPI_names[1] \o quarters[3]] = NaN
    /\ KPI_df.dataset.cell[KPI_names[7] \o quarters[3]] # KPI_df.dataset.cell[KPI_names[7] \o quarters[2]]

----------------------------------------------------------------------------
(* train_test_split.create_strata                                           *)

\* number of rows of the datasets handed to create_strata
StrataRows == 4

\* Series.astype(str): a missing value becomes the string 'nan'
astype_str(x) == IF x = NaN THEN <<"n", "a", "n">> ELSE x

\* dataset['Market Cap'].astype(str) + "_" + dataset['Sector'].astype(str)
strat(t) ==
    [i \in Index(t) |-> astype_str(t[MarketCap][i]) \o <<underscore>> \o astype_str(t[Sector][i])]

\* strat.value_counts(): label -> number of rows that carry it
value_counts(s) == [v \in {s[i] : i \in DOMAIN s} |-> Cardinality({i \in DOMAIN s : s[i] = v})]

\* a mask that keeps every row
to_strat_every_row(s) == [i \in DOMAIN s |-> TRUE]

\* strat.isin(val_cou[val_cou >= 2].index)
to_strat(s) ==
    LET val_cou == value_counts(s)
    IN  [i \in DOMAIN s |-> s[i] \in {v \in DOMAIN val_cou : val_cou[v] >= 2}]

\* dataset.loc[mask]
loc(t, row_mask) == [c \in DOMAIN t |-> [i \in {i \in Index(t) : row_mask[i]} |-> t[c][i]]]

\* strat.loc[mask]
loc_series(s, row_mask) == [i \in {i \in DOMAIN s : row_mask[i]} |-> s[i]]

\* create_strata(dataset): the pair (dataset, strat) returned
create_strata(t) == <<loc(t, to_strat(strat(t))), loc_series(strat(t), to_strat(strat(t)))>>

(* The datasets create_strata is called on *)

\* labels of market_cap_categories, and the missing value of a company
\* whose market value is not a number
MarketCaps == {<<"S", "m", "a", "l", "l", "-", "C", "a", "p">>, <<"L", "a", "r", "g", "e", "-", "C", "a", "p">>, NaN}

Sectors == {<<"T", "e", "c", "h">>, <<"R", "e", "a", "l", "_", "E", "s", "t", "a", "t", "e">>}

StrataDatasets ==
    UNION {{[c \in {Ticker, MarketCap, Sector} |->
               IF c = Ticker THEN [i \in 1..n |-> Int2F(i)]
               ELSE IF c = MarketCap THEN caps
               ELSE sectors] :
              caps \in [1..n -> MarketCaps], sectors \in [1..n -> Sectors]} : n \in 1..StrataRows}

InitStrata ==
    /\ pc = "create_strata"
    /\ strata_input \in StrataDatasets
    /\ strata_returned = NoTable
    /\ QoQIdle /\ ret = NoCall /\ FillIdle /\ PCAIdle /\ QuartersIdle
    /\ KPIIdle /\ FetchIdle /\ CleanIdle

\* dataset, strat = create_strata(dataset)
CallCreateStrata ==
    /\ pc = "create_strata"
    /\ strata_returned' = create_strata(strata_input)
    /\ pc' = "strata_returned"
    /\ UNCHANGED <<strata_input, qoq_vars, fill_vars, pca_vars, quarters_vars>>
    /\ UNCHANGED <<kpi_vars, fetch_vars, clean_vars>>

NextStrata == CallCreateStrata

SpecStrata == InitStrata /\ [][NextStrata]_vars

(* Properties of create_strata *)

\* the rows of a dataset with the Market Cap and Sector of row i of dataset t
\* (a missing Market Cap counts as a value of its own)
StrataGroup(t, i, u) ==
    {j \in Index(u) : u[MarketCap][j] = t[MarketCap][i] /\ u[Sector][j] = t[Sector][i]}

(* C24: in the dataset create_strata returns every (Market Cap, Sector)
   group has at least two rows; the rows returned are the rows of the input,
   unchanged, whose group in the input had at least two rows; and the
   strata series has one label for each returned row and for no other,
   the same label exactly for the rows of the same group. *)
C24_StrataGroups ==
    pc = "strata_returned" =>
        LET d == strata_returned[1]
            s == strata_returned[2]
        IN  /\ \A i \in Index(d) : Cardinality(StrataGroup(d, i, d)) >= 2
            /\ Index(d) = {i \in Index(strata_input) :
                             Cardinality(StrataGroup(strata_input, i, strata_input)) >= 2}
            /\ \A c \in DOMAIN strata_input : \A i \in Index(d) : d[c][i] = strata_input[c][i]
            /\ DOMAIN s = Index(d)
            /\ \A i, j \in DOMAIN s : s[i] = s[j] <=> j \in StrataGroup(d, i, d)

\* a row that was alone in its group is gone, and a group of companies
\* without a Market Cap is kept under the label 'nan_' + Sector
C24_Witness ==
    /\ pc = "strata_returned"
    /\ Index(strata_returned[1]) # Index(strata_input)
    /\ \E i \in DOMAIN strata_returned[2] :
          /\ strata_input[MarketCap][i] = NaN
          /\ strata_returned[2][i] = <<"n", "a", "n", "_">> \o strata_input[Sector][i]

----------------------------------------------------------------------------
(* clean.py, and the earlier version of clean kept in                       *)
(* .ipynb_checkpoints/clean-checkpoint.py                                   *)

\* number of rows of the tables handed to clean
CleanRows == 2

OriginalTicker == <<"O", "r", "i", "g", "i", "n", "a", "l", "T", "i", "c", "k", "e", "r">>
YahooSymbol == <<"Y", "a", "h", "o", "o", "S", "y", "m", "b", "o", "l">>
AssetClass == <<"A", "s", "s", "e", "t", " ", "C", "l", "a", "s", "s">>
Currency == <<"C", "u", "r", "r", "e", "n", "c", "y">>
Exchange == <<"E", "x", "c", "h", "a", "n", "g", "e">>
Location == <<"L", "o", "c", "a", "t", "i", "o", "n">>
MarketValue == <<"M", "a", "r", "k", "e", "t", " ", "V", "a", "l", "u", "e">>
ShortTermDebtOrCurrentLiab == <<"S", "h", "o", "r", "t", "T", "e", "r", "m", "D", "e", "b", "t", "O", "r", "C", "u", "r", "r", "e", "n", "t", "L", "i", "a", "b">>
Weight == <<"W", "e", "i", "g", "h", "t", " ", "(", "%", ")">>
Quantity == <<"Q", "u", "a", "n", "t", "i", "t", "y">>
NotionalValue == <<"N", "o", "t", "i", "o", "n", "a", "l", " ", "V", "a", "l", "u", "e">>
TotalLiabilities == <<"T", "o", "t", "a", "l", "L", "i", "a", "b", "i", "l", "i", "t", "i", "e", "s">>

\* line 49: quarters = ['_2024Q2', '_2024Q3', '_2024Q4', '_2025Q1', '_2025Q2']
clean_quarters == quarters \o << <<"_", "2", "0", "2", "5", "Q", "2">> >>

\* line 53: non_zero_cols
non_zero_cols == <<Revenue, TotalAssets, TotalEquity, CurrentLiabilities>>

\* clean-checkpoint.py lines 48-57: non_zero_cols
non_zero_cols_checkpoint ==
    <<Revenue, NetIncome, CurrentAssets, CurrentLiabilities, TotalAssets,
      TotalLiabilities, TotalEquity, TotalDebt, CashFromOps>>

\* dataset.index of the tables of this stage
CleanIndex(t) == DOMAIN t[Ticker]

\* the rows of a frame with an index label in keep
take(t, keep) == [c \in DOMAIN t |-> [i \in keep |-> t[c][i]]]

\* dataset.drop(index=...)
drop_index(t, labels) == take(t, CleanIndex(t) \ labels)

\* dataset.drop(columns=[...])
drop_columns(t, names) == [c \in DOMAIN t \ names |-> t[c]]

\* dataset.drop_duplicates(): a row equal to an earlier row goes
drop_duplicates(t) ==
    take(t, {i \in CleanIndex(t) : ~\E j \in CleanIndex(t) : j < i /\ \A c \in DOMAIN t : t[c][j] = t[c][i]})

\* dataset.loc[dataset.duplicated('Ticker', keep=False)].index
duplicates(t) ==
    {i \in CleanIndex(t) : \E j \in CleanIndex(t) : j # i /\ t[Ticker][j] = t[Ticker][i]}

\* dataset[dataset[column] == value]
where_eq(t, column, value) == take(t, {i \in CleanIndex(t) : t[column][i] = value})

\* dataset[dataset['Exchange'].isin(exchanges_to_keep)]
exchanges_to_keep == {"NASDAQ", "New York Stock Exchange Inc."}

where_isin(t, column, values) == take(t, {i \in CleanIndex(t) : t[column][i] \in values})

\* dataset[dataset[column + quarter] == 0].index
index_where_zero(t, column, quarter) == {i \in CleanIndex(t) : t[column \o quarter][i] = Zero}

\* clean.py lines 56-57: the inner loop assigns index_where_zero for every
\* quarter in turn; what the name holds when the loop ends
RECURSIVE inner_loop(_, _, _, _)
inner_loop(t, column, k, held) ==
    IF k > Len(clean_quarters) THEN held
    ELSE inner_loop(t, column, k + 1, index_where_zero(t, column, clean_quarters[k]))

\* clean.py lines 54-59: after each inner loop the indexes held are added
RECURSIVE indexes_to_drop(_, _, _)
indexes_to_drop(t, j, found) ==
    IF j > Len(non_zero_cols) THEN found
    ELSE indexes_to_drop(t, j + 1, found \cup inner_loop(t, non_zero_cols[j], 1, {}))

\* clean-checkpoint.py lines 58-63: the indexes are added inside the inner loop
indexes_to_drop_checkpoint(t, qs) ==
    UNION {index_where_zero(t, non_zero_cols_checkpoint[j], qs[k]) :
              j \in DOMAIN non_zero_cols_checkpoint, k \in DOMAIN qs}

\* lines 64-70: 1 for 'United States', 0 for every other location
replace_dict(location) == IF location = "United States" THEN Int2F(1) ELSE Int2F(0)

\* str.replace(',', '') and astype(np.float64) of a string of digits and commas
RECURSIVE parse_digits(_, _)
parse_digits(s, value) ==
    IF s = <<>> THEN value
    ELSE parse_digits(Tail(s), 10 * value + (Ord(Head(s)) - Ord("0")))

string_to_float(s) == Int2F(parse_digits(SelectSeq(s, LAMBDA ch : ch # ","), 0))

\* clean.py: clean(input_df)
clean(input) ==
    LET deduplicated == drop_duplicates(input)
        one_ticker == drop_columns(drop_index(deduplicated, duplicates(deduplicated)),
                                   {OriginalTicker, YahooSymbol})
        equity == drop_columns(where_eq(one_ticker, AssetClass, "Equity"), {AssetClass, Currency})
        listed == where_isin(equity, Exchange, exchanges_to_keep)
        trimmed == drop_columns(listed, {ShortTermDebtOrCurrentLiab \o clean_quarters[k] :
                                            k \in DOMAIN clean_quarters})
        non_zero == drop_index(trimmed, indexes_to_drop(trimmed, 1, {}))
    IN  [c \in DOMAIN non_zero |->
            IF c = Location THEN [i \in CleanIndex(non_zero) |-> replace_dict(non_zero[c][i])]
            ELSE IF c = MarketValue THEN [i \in CleanIndex(non_zero) |-> string_to_float(non_zero[c][i])]
            ELSE non_zero[c]]

\* clean-checkpoint.py: clean(input_df)
clean_checkpoint(input, columns_in_file) ==
    LET qs == get_quarters(columns_in_file).quarters
        deduplicated == drop_duplicates(input)
        one_ticker == drop_index(deduplicated, duplicates(deduplicated))
        equity == where_eq(one_ticker, AssetClass, "Equity")
        listed == where_isin(equity, Exchange, exchanges_to_keep)
        non_zero == drop_index(listed, indexes_to_drop_checkpoint(listed, qs))
        encoded == [c \in DOMAIN non_zero |->
                       IF c = Location THEN [i \in CleanIndex(non_zero) |-> replace_dict(non_zero[c][i])]
                       ELSE IF c = MarketValue THEN [i \in CleanIndex(non_zero) |-> string_to_float(non_zero[c][i])]
                       ELSE non_zero[c]]
    IN  drop_columns(encoded, {OriginalTicker, YahooSymbol, AssetClass, Currency, Weight, Price,
                               Quantity, NotionalValue}
                              \cup {ShortTermDebtOrCurrentLiab \o qs[k] : k \in DOMAIN qs})

(* The tables clean is called on *)

\* the quarterly columns of the file, in file order
CleanQuarterly ==
    LET metrics_in_file == non_zero_cols_checkpoint \o <<ShortTermDebtOrCurrentLiab>>
    IN  [k \in 1..(Len(metrics_in_file) * Len(clean_quarters)) |->
            metrics_in_file[((k - 1) \div Len(clean_quarters)) + 1]
                \o clean_quarters[((k - 1) % Len(clean_quarters)) + 1]]

CleanColumns ==
    <<Ticker, OriginalTicker, YahooSymbol, Sector, AssetClass, Currency, Exchange, Location,
      MarketValue, Weight, Price, Quantity, NotionalValue>> \o CleanQuarterly

\* kinds of company: a plain one, a fund, one listed elsewhere, and
\* companies with one zero cell
Profiles == {"plain", "fund", "otc", "zero_Revenue_first", "zero_Revenue_last",
             "zero_TotalEquity_middle", "zero_NetIncome_first"}

\* the cell that is zero for a profile
ZeroCell(profile) ==
    CASE profile = "zero_Revenue_first" -> Revenue \o clean_quarters[1]
      [] profile = "zero_Revenue_last" -> Revenue \o clean_quarters[Len(clean_quarters)]
      [] profile = "zero_TotalEquity_middle" -> TotalEquity \o clean_quarters[3]
      [] profile = "zero_NetIncome_first" -> NetIncome \o clean_quarters[1]
      [] OTHER -> <<>>

CleanCell(c, ticker, profile) ==
    CASE c \in {Ticker, OriginalTicker, YahooSymbol} -> ticker
      [] c = Sector -> "Tech"
      [] c = AssetClass -> IF profile = "fund" THEN "Fund" ELSE "Equity"
      [] c = Currency -> "USD"
      [] c = Exchange -> IF profile = "otc" THEN "Non-Nms Quotation Service (Nnqs)" ELSE "NASDAQ"
      [] c = Location -> IF ticker = "A" THEN "United States" ELSE "Canada"
      [] c = MarketValue -> IF ticker = "A" THEN <<"1", ",", "2", "0", "0">> ELSE <<"9", "5", "0">>
      [] c = ZeroCell(profile) -> Zero
      [] OTHER -> Int2F(5)

CleanTables ==
    UNION {{[c \in {CleanColumns[k] : k \in DOMAIN CleanColumns} |->
               [i \in 1..n |-> CleanCell(c, tickers[i], profiles[i])]] :
              tickers \in [1..n -> {"A", "B"}], profiles \in [1..n -> Profiles]} : n \in 1..CleanRows}

InitClean ==
    /\ pc = "clean"
    /\ clean_input \in CleanTables
    /\ cleaned_df = NoTable
    /\ QoQIdle /\ ret = NoCall /\ FillIdle /\ PCAIdle /\ QuartersIdle
    /\ KPIIdle /\ StrataIdle /\ FetchIdle

\* clean.py: cleaned_df = clean(df)
CallClean ==
    /\ pc = "clean"
    /\ cleaned_df' = clean(clean_input)
    /\ pc' = "cleaned"
    /\ UNCHANGED <<clean_input, qoq_vars, fill_vars, pca_vars, quarters_vars>>
    /\ UNCHANGED <<kpi_vars, strata_vars, fetch_vars>>

\* clean-checkpoint.py: cleaned_df = clean(df)
CallCleanCheckpoint ==
    /\ pc = "clean"
    /\ cleaned_df' = clean_checkpoint(clean_input, CleanColumns)
    /\ pc' = "cleaned_checkpoint"
    /\ UNCHANGED <<clean_input, qoq_vars, fill_vars, pca_vars, quarters_vars>>
    /\ UNCHANGED <<kpi_vars, strata_vars, fetch_vars>>

NextClean ==
    \/ CallClean
    \/ CallCleanCheckpoint

SpecClean == InitClean /\ [][NextClean]_vars

(* Properties of clean *)

\* the frame has no zero in a key column of any quarter
NoZeroRetained(t) ==
    \A j \in DOMAIN non_zero_cols : \A k \in DOMAIN clean_quarters :
        \A i \in CleanIndex(t) : t[non_zero_cols[j] \o clean_quarters[k]][i] # Zero

(* C26: the frame clean returns has no row with a zero in Revenue,
   TotalAssets, TotalEquity or CurrentLiabilities of any quarter. *)
C26_NoZeroRetained ==
    pc \in {"cleaned", "cleaned_checkpoint"} => NoZeroRetained(cleaned_df)

\* what holds of the earlier version of clean alone
CheckpointNoZeroRetained ==
    pc = "cleaned_checkpoint" =>
        \A j \in DOMAIN non_zero_cols_checkpoint : \A k \in DOMAIN clean_quarters :
            \A i \in CleanIndex(cleaned_df) :
                cleaned_df[non_zero_cols_checkpoint[j] \o clean_quarters[k]][i] # Zero

----------------------------------------------------------------------------
(* data_acquisition.fetch_metrcis and fetch_last_completed_quarters         *)
(* The worker threads of the pool run the submitted calls; each call makes  *)
(* its attempts, and the main thread appends the result of every future as  *)
(* it completes.  What the provider answers to an attempt is open: the      *)
(* attempt raises, or it yields the data of that attempt.                    *)

\* number of tickers submitted
MaxTickers == 3
\* number of worker threads of the pool
Workers == 2

\* fetch_last_completed_quarters(orig_ticker, retries=2, pause=0.3)
retries == 2

\* line 323: yahoo_map = {}, so yahoo_map.get(orig_ticker, orig_ticker) is the ticker
yahoo_map_get(orig_ticker) == orig_ticker

\* line 300: the row returned when every attempt raised
placeholder(orig_ticker) ==
    [OriginalTicker |-> orig_ticker, YahooSymbol |-> yahoo_map_get(orig_ticker)]

\* lines 260-296: the row built and returned by an attempt that does not raise
row_of_attempt(orig_ticker, attempt) ==
    [OriginalTicker |-> orig_ticker, YahooSymbol |-> yahoo_map_get(orig_ticker),
     Revenue_2025Q1 |-> Int2F(attempt)]

Queued == [state |-> "queued", attempt |-> 0]

\* a call whose last attempt lets its exception escape
after_exception_escapes(orig_ticker, attempt) ==
    IF attempt < retries + 1 THEN [state |-> "running", attempt |-> attempt + 1]
    ELSE [state |-> "done", attempt |-> attempt, raised |-> "Exception"]

\* lines 297-300: except Exception: time.sleep(pause), then the next
\* attempt of range(retries + 1), or the placeholder row after the last
after_exception(orig_ticker, attempt) ==
    IF attempt < retries + 1 THEN [state |-> "running", attempt |-> attempt + 1]
    ELSE [state |-> "done", attempt |-> attempt, succeeded |-> FALSE,
          result |-> placeholder(orig_ticker), collected |-> FALSE]

\* line 296: return row
after_return(orig_ticker, attempt) ==
    [state |-> "done", attempt |-> attempt, succeeded |-> TRUE,
     result |-> row_of_attempt(orig_ticker, attempt), collected |-> FALSE]

TickerPool == <<"A", "B", "A", "C", "B">>

InitFetch ==
    /\ pc = "as_completed"
    /\ \E n \in 0..MaxTickers : orig_tickers = SubSeq(TickerPool, 1, n)
    /\ futures = [i \in DOMAIN orig_tickers |-> Queued]
    /\ result_rows = <<>>
    /\ metrics = NoTable
    /\ QoQIdle /\ ret = NoCall /\ FillIdle /\ PCAIdle /\ QuartersIdle
    /\ KPIIdle /\ StrataIdle /\ CleanIdle

\* a free worker thread takes the call submitted first among the waiting ones
WorkerStarts ==
    /\ pc = "as_completed"
    /\ Cardinality({i \in DOMAIN futures : futures[i].state = "running"}) < Workers
    /\ \E i \in DOMAIN futures :
          /\ futures[i].state = "queued"
          /\ \A j \in DOMAIN futures : futures[j].state = "queued" => i <= j
          /\ futures' = [futures EXCEPT ![i] = [state |-> "running", attempt |-> 1]]
    /\ UNCHANGED <<pc, orig_tickers, result_rows, metrics>>
    /\ UNCHANGED <<qoq_vars, fill_vars, pca_vars, quarters_vars, kpi_vars, strata_vars, clean_vars>>

\* an attempt of a running call raises inside the try block
AttemptRaises ==
    /\ pc = "as_completed"
    /\ \E i \in DOMAIN futures :
          /\ futures[i].state = "running"
          /\ futures' = [futures EXCEPT ![i] = after_exception(orig_tickers[i], futures[i].attempt)]
    /\ UNCHANGED <<pc, orig_tickers, result_rows, metrics>>
    /\ UNCHANGED <<qoq_vars, fill_vars, pca_vars, quarters_vars, kpi_vars, strata_vars, clean_vars>>

\* an attempt of a running call reaches return row
AttemptReturns ==
    /\ pc = "as_completed"
    /\ \E i \in DOMAIN futures :
          /\ futures[i].state = "running"
          /\ futures' = [futures EXCEPT ![i] = after_return(orig_tickers[i], futures[i].attempt)]
    /\ UNCHANGED <<pc, orig_tickers, result_rows, metrics>>
    /\ UNCHANGED <<qoq_vars, fill_vars, pca_vars, quarters_vars, kpi_vars, strata_vars, clean_vars>>

\* lines 76-77: as_completed yields a finished future and rows.append(fut.result());
\* fut.result() raises the exception of a call that let one escape
AppendResult ==
    /\ pc = "as_completed"
    /\ \E i \in DOMAIN futures :
          /\ futures[i].state = "done"
          /\ IF "raised" \in DOMAIN futures[i]
             THEN /\ pc' = "aborted"
                  /\ UNCHANGED <<futures, result_rows>>
             ELSE /\ ~futures[i].collected
                  /\ result_rows' = Append(result_rows, futures[i].result)
                  /\ futures' = [futures EXCEPT ![i].collected = TRUE]
                  /\ pc' = pc
    /\ UNCHANGED <<orig_tickers, metrics>>
    /\ UNCHANGED <<qoq_vars, fill_vars, pca_vars, quarters_vars, kpi_vars, strata_vars, clean_vars>>

\* lines 79-80: every future was yielded; metrics = pd.DataFrame(rows)
ReturnMetrics ==
    /\ pc = "as_completed"
    /\ \A i \in DOMAIN futures : futures[i].state = "done" /\ "collected" \in DOMAIN futures[i]
                                   /\ futures[i].collected
    /\ metrics' = result_rows
    /\ pc' = "fetched"
    /\ UNCHANGED <<orig_tickers, futures, result_rows>>
    /\ UNCHANGED <<qoq_vars, fill_vars, pca_vars, quarters_vars, kpi_vars, strata_vars, clean_vars>>

NextFetch ==
    \/ WorkerStarts
    \/ AttemptRaises
    \/ AttemptReturns
    \/ AppendResult
    \/ ReturnMetrics

SpecFetch == InitFetch /\ [][NextFetch]_vars

(* Properties of fetch_metrcis *)

\* the ways to pair the rows of the frame with the submitted tickers, each with one
Pairings ==
    {p \in [DOMAIN metrics -> DOMAIN orig_tickers] :
        \A a, b \in DOMAIN metrics : p[a] = p[b] => a = b}

(* C25: fetch_metrcis does not abort; the frame it returns has exactly one
   row per submitted ticker; a ticker whose retries + 1 attempts all raised
   has the row with OriginalTicker and YahooSymbol alone; any other ticker
   has the row of its first attempt that did not raise, and no attempt was
   made after that one. *)
C25_OneRowPerTicker ==
    /\ pc # "aborted"
    /\ pc = "fetched" =>
          /\ Len(metrics) = Len(orig_tickers)
          /\ \E p \in Pairings : \A k \in DOMAIN metrics :
                LET f == futures[p[k]]
                    ticker == orig_tickers[p[k]]
                IN  /\ metrics[k].OriginalTicker = ticker
                    /\ f.attempt <= retries + 1
                    /\ metrics[k] = f.result
                    /\ IF f.succeeded
                       THEN metrics[k] = [OriginalTicker |-> ticker, YahooSymbol |-> ticker,
                                          Revenue_2025Q1 |-> Int2F(f.attempt)]
                       ELSE /\ f.attempt = retries + 1
                            /\ DOMAIN metrics[k] = {"OriginalTicker", "YahooSymbol"}
                            /\ metrics[k].YahooSymbol = ticker

\* three tickers, two of them the same: the last submitted is the first row,
\* one ticker failed three times, one succeeded at its second attempt
C25_Witness ==
    /\ pc = "fetched"
    /\ Len(metrics) = 3
    /\ metrics[1].OriginalTicker = "A" /\ metrics[2].OriginalTicker = "B"
    /\ futures[3].result = metrics[1] /\ futures[3].succeeded /\ futures[3].attempt = 2
    /\ futures[1].result = metrics[3] /\ ~futures[1].succeeded

====
